---- MODULE Spec2Model ----
(***************************************************************************)
(* Verification model of the HVAC air-quality collection repository:       *)
(* the efficiency calculator, the row builders, the sensor adapters, the   *)
(* multi-sensor orchestrators (collect_with_sheets_api_v2, its predecessor *)
(* collect_with_sheets_api and the archived collect_air_multi) and the     *)
(* schema repair tool (fix_sheets_schema.SheetsFixer).                     *)
(*                                                                         *)
(* Numbers are fixed-point integers in thousandths (5.0 is 5000), so that  *)
(* Python's round(x, 2) is a rounding to a multiple of 10 and round(x, 1)  *)
(* to a multiple of 100.  The quotient of calculate_efficiency is computed *)
(* exactly and rounded half-to-even, which is what round() does on the     *)
(* exact value; the last-bit error of the float division is not modelled.  *)
(***************************************************************************)
EXTENDS Integers, Sequences, FiniteSets, TLC

VARIABLES
    \* --- the efficiency calculators applied to drawn inputs
    calcPc, calcIndoor, calcOutdoor, calcResult, calcV1,
    \* --- one collection cycle of an orchestrator (main)
    variant,            \* "v2", "v1" or "archive": which main() runs
    cfg,                \* the environment configuration of the deployment
    pc,                 \* the position of main()
    service,            \* the local `service` of main()
    headerRow,          \* row 1 of the target range of the spreadsheet
    sheetRows,          \* the rows the spreadsheet stored in this cycle
    outdoor, master, second, attic,     \* the locals of main()
    rows_to_append, sendIdx, success_count,
    pollLog,            \* the adapters called, in call order, and whether
                        \* each returned a reading
    effLog,             \* the rooms calculate_efficiency was called for
    appendLog,          \* the rows passed to append_to_sheet, in call order
    formPosts,          \* the number of form submissions (archive)
    backupFile,         \* /tmp/air_quality_latest.json: "absent" or "written"
    raised,             \* the exception that escaped main(), "" if none
    \* --- one run of fix_sheets_schema.SheetsFixer.run
    fxPc,               \* the position of run()
    fxSheet,            \* the rows of the main sheet (row 1 first)
    fxTab,              \* the added tab: <<>> if none, else <<its rows>>
    fxBackupFile,       \* data/backup_sheets_*.json: <<>> or <<the dump>>
    fxCsvFile,          \* data/cleaned_data_*.csv: <<>> or <<the dataset>>
    fxData,             \* the local `data` of run()
    fxTransition,       \* transition_row: a number or None
    fxConverted,        \* converted_old
    fxExisting,         \* existing_new
    fxAllData,          \* all_data of create_clean_sheet, <<>> before it
    fxChoice, fxConfirm,    \* what the operator typed at the two prompts
    fxCalls,            \* the spreadsheet API calls made, in call order
    fxRaised,           \* the exception that escaped run(), "" if none
    \* --- one call of a sensor adapter on drawn inputs
    adPc,               \* "ready" before the call, "done" after it
    adFn,               \* which adapter is called
    adIn,               \* its configuration and what its requests meet
    adResult,           \* what it returned, or the exception that escaped
    adRequests,         \* the HTTP requests it made, in order
    \* --- the spreadsheet gateway called repeatedly on one sheet
    gwPc,               \* "open" while calls are made
    gwGen,              \* "v2" or "v1": whose gateway functions are called
    gwSheet,            \* the rows of the target range, row 1 first
    gwBefore,           \* the rows before the last call
    gwLast,             \* the last call: function, backend outcome, result
    gwPrev,             \* the call before it
    gwCount,            \* the number of calls made
    \* --- the dashboard (scripts/dashboard.py) over a session
    dbNow,              \* time.time(), in seconds
    dbTicks,            \* how often the clock advanced
    dbSheet,            \* the version of the spreadsheet's contents
    dbCache,            \* .cache/air_quality.parquet: <<>> or <<the file>>
    dbSession,          \* st.session_state: a dict
    dbLast,             \* the last get_data call: what it did and returned
    dbCount,            \* the number of get_data calls made
    \* --- one run of old_versions/scheduler.py
    scMode,             \* "once" (--once given) or "loop"
    scPc,               \* the position of the process
    scTrace,            \* collections, log records and sleeps, in order
    scIter,             \* the number of loop iterations begun
    scCause,            \* the exception that ended the process, "" if none
    \* --- one run of scripts/setup_google_sheets_api.check_setup
    suPc,               \* "ready" before the run, "done" after it
    suEnv,              \* the environment and the files the checks read
    suSummary,          \* the summary printed: "pass", "fail", "" before
    \* --- the phase segmentation of the historical analyses
    phPc,               \* "ready" before the call, "done" after it
    phFn,               \* "add_phase_labels" or "analyze_filter_impact"
    phIndex,            \* the sorted timestamp index of the data frame
    phLabels,           \* the phase column add_phase_labels wrote
    phPeriods           \* the rows of each period of analyze_filter_impact

calcVars == <<calcPc, calcIndoor, calcOutdoor, calcResult, calcV1>>

cycleVars == <<variant, cfg, pc, service, headerRow, sheetRows, outdoor, master, second,
               attic, rows_to_append, sendIdx, success_count, pollLog, effLog,
               appendLog, formPosts, backupFile, raised>>

fixerVars == <<fxPc, fxSheet, fxTab, fxBackupFile, fxCsvFile, fxData,
               fxTransition, fxConverted, fxExisting, fxAllData, fxChoice,
               fxConfirm, fxCalls, fxRaised>>

adapterVars == <<adPc, adFn, adIn, adResult, adRequests>>

gatewayVars == <<gwPc, gwGen, gwSheet, gwBefore, gwLast, gwPrev, gwCount>>

dashVars == <<dbNow, dbTicks, dbSheet, dbCache, dbSession, dbLast, dbCount>>

\* the variables of the collectors, the repair tool and their parts
coreVars == <<calcVars, cycleVars, fixerVars, adapterVars, gatewayVars>>

\* the variables of the tools around them
schedVars == <<scMode, scPc, scTrace, scIter, scCause>>

setupVars == <<suPc, suEnv, suSummary>>

phaseVars == <<phPc, phFn, phIndex, phLabels, phPeriods>>

toolVars == <<dashVars, schedVars, setupVars, phaseVars>>

vars == <<coreVars, toolVars>>

(***************************************************************************)
(* Python values.  A cell is a number, a string, None, or (as the result   *)
(* of an operator) a raised exception.                                     *)
(***************************************************************************)
Num(n) == [k |-> "num", n |-> n, s |-> ""]
Str(s) == [k |-> "str", n |-> 0, s |-> s]
None == [k |-> "none", n |-> 0, s |-> ""]
Raise(e) == [k |-> "raise", n |-> 0, s |-> e]
EmptyStr == Str("")
IsNum(c) == c.k = "num"
IsRaise(c) == c.k = "raise"

\* 100.0 in thousandths
Hundred == Num(100 * 1000)

\* the largest PM2.5 magnitude (in thousandths) the calculators are applied to
MaxPM == 33

(***************************************************************************)
(* round(): the nearest integer to num/den (num >= 0, den > 0), ties to    *)
(* the even neighbour.                                                     *)
(***************************************************************************)
RoundHalfEven(num, den) ==
    LET q == num \div den
        r == num % den
    IN  IF 2 * r < den THEN q
        ELSE IF 2 * r > den THEN q + 1
        ELSE IF q % 2 = 0 THEN q ELSE q + 1

\* ((o - i) / o) * 100 clamped by max(0, min(100, .)) and
\* rounded to `digits` decimals (3: the resolution of the model, for a
\* value that is not rounded); the result in thousandths.  The division
\* raises ZeroDivisionError on a zero divisor.
ClampedRatio(i, o, digits) ==
    LET unit == CASE digits = 3 -> 1 [] digits = 2 -> 10 [] OTHER -> 100
        steps == 100000 \div unit                \* steps in 100 percent
    IN  IF o = 0 THEN Raise("ZeroDivisionError")
        ELSE IF (o > 0 /\ i >= o) \/ (o < 0 /\ i <= o)
                 THEN Num(0)                            \* efficiency <= 0
        ELSE IF (o > 0 /\ i <= 0) \/ (o < 0 /\ i >= 0)
                 THEN Hundred                  \* efficiency >= 100
        ELSE LET a == IF o > 0 THEN o - i ELSE i - o
                 b == IF o > 0 THEN o ELSE 0 - o
             IN  Num(unit * RoundHalfEven(a * steps, b))

\* a variant whose guard lets a zero outdoor value through to the division
calculate_efficiency_lt(indoor_pm25, outdoor_pm25) ==
    IF ~IsNum(outdoor_pm25) THEN Raise("TypeError")
    ELSE IF outdoor_pm25.n < 0
         THEN IF ~IsNum(indoor_pm25) THEN Raise("TypeError")
              ELSE IF indoor_pm25.n <= 0 THEN Hundred ELSE Num(0)
    ELSE IF ~IsNum(indoor_pm25) THEN Raise("TypeError")
    ELSE ClampedRatio(indoor_pm25.n, outdoor_pm25.n, 2)

\* a variant that forgets the clamp at the top of the range
calculate_efficiency_noclamp(indoor_pm25, outdoor_pm25) ==
    IF ~IsNum(outdoor_pm25) THEN Raise("TypeError")
    ELSE IF outdoor_pm25.n <= 0
         THEN IF ~IsNum(indoor_pm25) THEN Raise("TypeError")
              ELSE IF indoor_pm25.n <= 0 THEN Hundred ELSE Num(0)
    ELSE IF ~IsNum(indoor_pm25) THEN Raise("TypeError")
    ELSE IF indoor_pm25.n < 0
         THEN Num(10 * RoundHalfEven((outdoor_pm25.n - indoor_pm25.n) * 10000,
                                     outdoor_pm25.n))
    ELSE ClampedRatio(indoor_pm25.n, outdoor_pm25.n, 2)

\* collect_with_sheets_api_v2.calculate_efficiency.  A comparison or a
\* subtraction with None raises TypeError.
calculate_efficiency(indoor_pm25, outdoor_pm25) ==
    IF ~IsNum(outdoor_pm25) THEN Raise("TypeError")
    ELSE IF outdoor_pm25.n <= 0
         THEN IF ~IsNum(indoor_pm25) THEN Raise("TypeError")
              ELSE IF indoor_pm25.n <= 0 THEN Hundred ELSE Num(0)
    ELSE IF ~IsNum(indoor_pm25) THEN Raise("TypeError")
    ELSE ClampedRatio(indoor_pm25.n, outdoor_pm25.n, 2)

\* collect_with_sheets_api.calculate_efficiency: one decimal, 0 when the
\* outdoor value is not positive.
calculate_efficiency_v1(indoor_pm25, outdoor_pm25) ==
    IF ~IsNum(outdoor_pm25) THEN Raise("TypeError")
    ELSE IF outdoor_pm25.n > 0
         THEN IF ~IsNum(indoor_pm25) THEN Raise("TypeError")
              ELSE ClampedRatio(indoor_pm25.n, outdoor_pm25.n, 1)
    ELSE Num(0)

(***************************************************************************)
(* JSON documents.  A dict is a function from its keys to values; a key    *)
(* that is absent is outside its domain, a key that is null maps to None.  *)
(***************************************************************************)
Get(d, key, default) == IF key \in DOMAIN d THEN d[key] ELSE default
Without(d, key) == [x \in (DOMAIN d) \ {key} |-> d[x]]
WithNull(d, key) == [x \in DOMAIN d |-> IF x = key THEN None ELSE d[x]]

\* s[-k:]
LastChars(s, k) == IF Len(s) <= k THEN s ELSE SubSeq(s, Len(s) - k + 1, Len(s))
\* s[:k]
FirstChars(s, k) == IF Len(s) <= k THEN s ELSE SubSeq(s, 1, k)

\* dict truthiness: a reading (a non-empty dict) is truthy, None is not
Truthy(x) == x # None

\* a local variable of main() that was never assigned
Unbound == [k |-> "unbound", n |-> 0, s |-> ""]

(***************************************************************************)
(* HTTP responses.  exc: requests raised (timeout, connection error);      *)
(* status: the HTTP status; json: whether the body parses as JSON; obj:    *)
(* whether the parsed body is a JSON object (a dict); data: the parsed     *)
(* object.                                                                 *)
(***************************************************************************)
Timeout ==
    [exc |-> TRUE, status |-> 0, json |-> FALSE, obj |-> FALSE, data |-> <<>>]
Http(status, d) ==
    [exc |-> FALSE, status |-> status, json |-> TRUE, obj |-> TRUE, data |-> d]
BadJson(status) ==
    [exc |-> FALSE, status |-> status, json |-> FALSE, obj |-> FALSE, data |-> <<>>]
\* a body that parses as JSON but is a list, not an object
NotObject(status) ==
    [exc |-> FALSE, status |-> status, json |-> TRUE, obj |-> FALSE, data |-> <<>>]

\* the highest PM2.5 level of the vendor payloads, in steps of 4.0
MaxLevel == 1

PMLevels == {4000 * l : l \in 0..MaxLevel}

(***************************************************************************)
(* AirGradient /measures/current                                           *)
(***************************************************************************)
AGKeys == {"pm02Compensated", "pm02", "rco2", "tvocIndex", "noxIndex",
           "atmpCompensated", "atmp", "rhumCompensated", "rhum"}

\* a complete payload; the raw values differ from the compensated ones
AGFull(pm) ==
    [pm02Compensated |-> Num(pm), pm02 |-> Num(pm + 1500), rco2 |-> Num(420000),
     tvocIndex |-> Num(100000), noxIndex |-> Num(1000),
     atmpCompensated |-> Num(25100), atmp |-> Num(27300),
     rhumCompensated |-> Num(50000), rhum |-> Num(48000)]

\* the keys whose absence or null value the payloads exercise
AGDeviantKeys == AGKeys

AGPayloads ==
    {AGFull(pm) : pm \in PMLevels}
    \cup {WithNull(AGFull(4000), key) : key \in AGDeviantKeys}
    \cup {Without(AGFull(4000), key) : key \in AGDeviantKeys}

AGResponses ==
    {Timeout, BadJson(200), NotObject(200), Http(500, AGFull(4000))}
    \cup {Http(200, d) : d \in AGPayloads}

\* a variant that prefers the raw field of each pair
AGReading_raw(serial, room, data) ==
    [sensor_id |-> Str(IF serial # "" /\ serial # "XXXXXX"
                       THEN "airgradient_" \o LastChars(serial, 6)
                       ELSE "airgradient_" \o FirstChars(room, 3)),
     room |-> Str(room),
     sensor_type |-> Str("airgradient"),
     pm25 |-> Get(data, "pm02", Get(data, "pm02Compensated", Num(0))),
     co2 |-> Get(data, "rco2", Num(0)),
     voc |-> Get(data, "tvocIndex", Num(0)),
     nox |-> Get(data, "noxIndex", Num(0)),
     temp |-> Get(data, "atmp", Get(data, "atmpCompensated", Num(0))),
     humidity |-> Get(data, "rhum", Get(data, "rhumCompensated", Num(0))),
     radon |-> EmptyStr]

\* the reading dict of collect_with_sheets_api_v2.get_airgradient_data
\* (its raw_data entry, which nothing reads, is left out)
AGReading(serial, room, data) ==
    [sensor_id |-> Str(IF serial # "" /\ serial # "XXXXXX"
                       THEN "airgradient_" \o LastChars(serial, 6)
                       ELSE "airgradient_" \o FirstChars(room, 3)),
     room |-> Str(room),
     sensor_type |-> Str("airgradient"),
     pm25 |-> Get(data, "pm02Compensated", Get(data, "pm02", Num(0))),
     co2 |-> Get(data, "rco2", Num(0)),
     voc |-> Get(data, "tvocIndex", Num(0)),
     nox |-> Get(data, "noxIndex", Num(0)),
     temp |-> Get(data, "atmpCompensated", Get(data, "atmp", Num(0))),
     humidity |-> Get(data, "rhumCompensated", Get(data, "rhum", Num(0))),
     radon |-> EmptyStr]

\* the candidate URLs: the mDNS host name first, then the static IP
AGUrls(serial, ip) ==
    (IF serial # "" /\ serial # "XXXXXX" THEN <<"mdns">> ELSE <<>>)
    \o (IF ip # "" /\ ip # "192.168.X.XX" THEN <<"ip">> ELSE <<>>)

\* what a call returned and the requests it made
Outcome(result, requests) == [result |-> result, requests |-> requests]
Requested(url, outcome) ==
    [result |-> outcome.result, requests |-> <<url>> \o outcome.requests]

\* the for loop over the URLs: responses[i] answers the i-th URL.  A
\* RequestException and the ValueError of a body that is not JSON are
\* caught inside the loop, which goes on; a status other than 200 goes on
\* too.  The AttributeError of data.get on a body that is not an object is
\* caught by the outer handler only: the function returns None at once.
RECURSIVE AGTryUrls(_, _, _, _, _)
AGTryUrls(serial, room, urls, responses, i) ==
    IF i > Len(urls) THEN Outcome(None, <<>>)
    ELSE LET r == responses[i]
         IN  Requested(urls[i],
                 IF r.exc THEN AGTryUrls(serial, room, urls, responses, i + 1)
                 ELSE IF r.status # 200
                      THEN AGTryUrls(serial, room, urls, responses, i + 1)
                 ELSE IF ~r.json
                      THEN AGTryUrls(serial, room, urls, responses, i + 1)
                 ELSE IF ~r.obj THEN Outcome(None, <<>>)
                 ELSE Outcome(AGReading(serial, room, r.data), <<>>))

\* collect_with_sheets_api_v2.get_airgradient_data with its requests
get_airgradient_call(serial, room, ip, responses) ==
    LET urls == AGUrls(serial, ip)
    IN  IF urls = <<>> THEN Outcome(None, <<>>)
        ELSE AGTryUrls(serial, room, urls, responses, 1)

\* collect_with_sheets_api_v2.get_airgradient_data
get_airgradient_data(serial, room, ip, responses) ==
    get_airgradient_call(serial, room, ip, responses).result

(***************************************************************************)
(* Airthings consumer API                                                  *)
(***************************************************************************)
ATKeys == {"pm25", "co2", "voc", "temp", "humidity", "radonShortTermAvg"}

ATFull(pm) ==
    [pm25 |-> Num(pm), co2 |-> Num(450000), voc |-> Num(61000),
     temp |-> Num(22500), humidity |-> Num(45000),
     radonShortTermAvg |-> Num(12000)]

ATDeviantKeys == ATKeys

ATValues ==
    {ATFull(pm) : pm \in PMLevels}
    \cup {WithNull(ATFull(4000), key) : key \in ATDeviantKeys}
    \cup {Without(ATFull(4000), key) : key \in ATDeviantKeys}

\* the sensors list of the newer shape: one {sensorType, value} per key
ATSensorList(d) ==
    LET Pick(S) == CHOOSE x \in S : TRUE
        RECURSIVE ListOf(_)
        ListOf(S) == IF S = {} THEN <<>>
                     ELSE LET x == Pick(S)
                          IN  <<[sensorType |-> x, value |-> d[x]]>> \o ListOf(S \ {x})
    IN  ListOf(DOMAIN d)

\* the body of GET /accounts/{id}/sensors
ATSensorDocs ==
    {[results |-> <<[sensors |-> ATSensorList(d)]>>] : d \in ATValues}
    \cup {[sensors |-> <<ATFull(4000)>>],                   \* the older flat shape
          [results |-> <<>>, sensors |-> <<ATFull(0)>>],    \* empty results, flat data
          [results |-> <<[sensors |-> ATSensorList(ATFull(4000))]>>,
           sensors |-> <<ATFull(0)>>],                      \* both shapes
          [results |-> <<>>, sensors |-> <<>>],             \* both empty
          [results |-> <<>>],                               \* neither shape
          [results |-> <<[sensors |-> <<[sensorType |-> "pm25"]>>]>>]}   \* no value key

\* what the three requests of the adapter meet
ATEnvs ==
    {[token |-> "fail", accounts |-> "ok", sensors |-> [results |-> <<>>]],
     [token |-> "ok", accounts |-> "fail", sensors |-> [results |-> <<>>]],
     [token |-> "ok", accounts |-> "empty", sensors |-> [results |-> <<>>]]}
    \cup {[token |-> "ok", accounts |-> "ok", sensors |-> doc] : doc \in ATSensorDocs}

\* for s in result.get("sensors", []): sensor_data[s["sensorType"]] = s["value"]
\* (a missing key raises KeyError)
RECURSIVE ATCollect(_, _, _)
ATCollect(list, i, acc) ==
    IF i > Len(list) THEN acc
    ELSE LET e == list[i]
         IN  IF ~("sensorType" \in DOMAIN e /\ "value" \in DOMAIN e)
             THEN Raise("KeyError")
             ELSE ATCollect(list, i + 1,
                            [x \in (DOMAIN acc) \cup {e.sensorType} |->
                                 IF x = e.sensorType THEN e.value ELSE acc[x]])

ATReading(serial, sensor, nox) ==
    [sensor_id |-> Str("airthings_" \o (IF serial # "" THEN LastChars(serial, 6)
                                         ELSE "unknown")),
     room |-> Str("master_bedroom"),
     sensor_type |-> Str("airthings"),
     pm25 |-> Get(sensor, "pm25", Num(0)),
     co2 |-> Get(sensor, "co2", Num(0)),
     voc |-> Get(sensor, "voc", Num(0)),
     nox |-> nox,
     temp |-> Get(sensor, "temp", Num(0)),
     humidity |-> Get(sensor, "humidity", Num(0)),
     radon |-> Get(sensor, "radonShortTermAvg", Num(0))]

\* a variant that reads the older flat shape first
get_airthings_data_flatfirst(serial, env) ==
    IF env.token # "ok" THEN None
    ELSE IF env.accounts = "fail" THEN None
    ELSE IF env.accounts = "empty" THEN None
    ELSE LET sensors == env.sensors
         IN  IF Get(sensors, "sensors", <<>>) # <<>>
             THEN ATReading(serial, sensors.sensors[1], EmptyStr)
             ELSE IF Get(sensors, "results", <<>>) # <<>>
             THEN LET result == sensors.results[1]
                      sensor_data == ATCollect(Get(result, "sensors", <<>>), 1, <<>>)
                  IN  IF sensor_data = Raise("KeyError") THEN None
                      ELSE ATReading(serial, sensor_data, EmptyStr)
             ELSE None

\* collect_with_sheets_api_v2.get_airthings_data: every exception is caught
\* and gives None; so does a document of neither shape (the function falls
\* off its end).
get_airthings_data(serial, env) ==
    IF env.token # "ok" THEN None
    ELSE IF env.accounts = "fail" THEN None
    ELSE IF env.accounts = "empty" THEN None
    ELSE LET sensors == env.sensors
         IN  IF Get(sensors, "results", <<>>) # <<>>
             THEN LET result == sensors.results[1]
                      sensor_data == ATCollect(Get(result, "sensors", <<>>), 1, <<>>)
                  IN  IF sensor_data = Raise("KeyError") THEN None
                      ELSE ATReading(serial, sensor_data, EmptyStr)
             ELSE IF Get(sensors, "sensors", <<>>) # <<>>
             THEN ATReading(serial, sensors.sensors[1], EmptyStr)
             ELSE None

(***************************************************************************)
(* Temp Stick API                                                          *)
(***************************************************************************)
TSData ==
    {[last_temp |-> Num(31456), last_humidity |-> Num(50800)],
     [last_temp |-> Num(0), last_humidity |-> Num(50800)],
     [last_temp |-> None, last_humidity |-> Num(80000)],
     [last_temp |-> Num(31456), last_humidity |-> None],
     [last_humidity |-> Num(50800)],
     [last_temp |-> Num(31456)]}

TSResponses ==
    {Timeout, BadJson(200), NotObject(200),
     Http(500, [data |-> [last_temp |-> Num(31456)]])}
    \cup {Http(200, [data |-> d]) : d \in TSData}
    \cup {Http(200, <<>>)}

\* round(x, 2) of a number in thousandths
Round2(n) == IF n >= 0 THEN 10 * RoundHalfEven(n, 10)
             ELSE 0 - 10 * RoundHalfEven(0 - n, 10)

\* a variant that reports a missing temperature as 0
TSReading_zero(sensor_id, data) ==
    LET last_temp == Get(data, "last_temp", None)
    IN  [sensor_id |-> Str("tempstick_" \o LastChars(sensor_id, 4)),
         room |-> Str("attic"),
         sensor_type |-> Str("tempstick"),
         temp |-> IF last_temp # None THEN Num(Round2(last_temp.n)) ELSE Num(0),
         humidity |-> Get(data, "last_humidity", EmptyStr)]

\* the reading dict of collect_with_sheets_api_v2.get_tempstick_data
TSReading(sensor_id, data) ==
    LET last_temp == Get(data, "last_temp", None)
    IN  [sensor_id |-> Str("tempstick_" \o LastChars(sensor_id, 4)),
         room |-> Str("attic"),
         sensor_type |-> Str("tempstick"),
         temp |-> IF last_temp # None THEN Num(Round2(last_temp.n)) ELSE EmptyStr,
         humidity |-> Get(data, "last_humidity", EmptyStr)]

\* a variant whose guard asks for both settings to be empty
get_tempstick_call_both(api_key, sensor_id, response) ==
    IF api_key = "" /\ sensor_id = "" THEN Outcome(None, <<>>)
    ELSE Requested("tempstickapi",
             IF response.exc THEN Outcome(None, <<>>)
             ELSE IF response.status # 200 THEN Outcome(None, <<>>)
             ELSE IF ~response.json \/ ~response.obj THEN Outcome(None, <<>>)
             ELSE Outcome(TSReading(sensor_id, Get(response.data, "data", <<>>)),
                          <<>>))

\* collect_with_sheets_api_v2.get_tempstick_data with its requests: the
\* configuration guard comes before the request; every exception of the
\* request and of the decoding is caught and gives None
get_tempstick_call(api_key, sensor_id, response) ==
    IF api_key = "" \/ sensor_id = "" THEN Outcome(None, <<>>)
    ELSE Requested("tempstickapi",
             IF response.exc THEN Outcome(None, <<>>)
             ELSE IF response.status # 200 THEN Outcome(None, <<>>)
             ELSE IF ~response.json \/ ~response.obj THEN Outcome(None, <<>>)
             ELSE Outcome(TSReading(sensor_id, Get(response.data, "data", <<>>)),
                          <<>>))

\* collect_with_sheets_api_v2.get_tempstick_data
get_tempstick_data(api_key, sensor_id, response) ==
    get_tempstick_call(api_key, sensor_id, response).result

(***************************************************************************)
(* The adapters of the earlier generations                                 *)
(***************************************************************************)
\* collect_with_sheets_api.get_airthings_data: subscripts instead of .get,
\* the radon key "radon", nox 0; an unset serial (None) cannot be sliced.
get_airthings_data_v1(serial, env) ==
    IF env.token # "ok" THEN None
    ELSE IF env.accounts # "ok" THEN None           \* KeyError / IndexError
    ELSE IF serial = "" THEN None                   \* TypeError on None[-6:]
    ELSE LET sensors == env.sensors
         IN  IF "results" \notin DOMAIN sensors THEN None       \* KeyError
             ELSE IF sensors.results = <<>> THEN None
             ELSE LET result == sensors.results[1]
                      data == IF "sensors" \in DOMAIN result
                              THEN ATCollect(result.sensors, 1, <<>>)
                              ELSE Raise("KeyError")
                  IN  IF data = Raise("KeyError") THEN None
                      ELSE [sensor_id |-> Str("airthings_" \o LastChars(serial, 6)),
                            room |-> Str("master_bedroom"),
                            sensor_type |-> Str("airthings"),
                            pm25 |-> Get(data, "pm25", Num(0)),
                            co2 |-> Get(data, "co2", Num(0)),
                            voc |-> Get(data, "voc", Num(0)),
                            nox |-> Num(0),
                            temp |-> Get(data, "temp", Num(0)),
                            humidity |-> Get(data, "humidity", Num(0)),
                            radon |-> Get(data, "radon", Num(0))]

\* collect_with_sheets_api.get_airgradient_data: one URL, the status is not
\* looked at, compensated values only
get_airgradient_data_v1(serial, room, response) ==
    IF response.exc \/ ~response.json \/ ~response.obj THEN None
    ELSE IF serial = "" THEN None                   \* TypeError on None[-6:]
    ELSE [sensor_id |-> Str("airgradient_" \o LastChars(serial, 6)),
          room |-> Str(room),
          sensor_type |-> Str("airgradient"),
          pm25 |-> Get(response.data, "pm02Compensated", Num(0)),
          co2 |-> Get(response.data, "rco2", Num(0)),
          voc |-> Get(response.data, "tvocIndex", Num(0)),
          nox |-> Get(response.data, "noxIndex", Num(0)),
          temp |-> Get(response.data, "atmpCompensated", Num(0)),
          humidity |-> Get(response.data, "rhumCompensated", Num(0)),
          radon |-> Num(0)]

\* scripts/archive/collect_air_multi.get_airthings_data
get_airthings_data_archive(env) ==
    IF env.token # "ok" THEN None
    ELSE IF env.accounts # "ok" THEN None
    ELSE LET sensors == env.sensors
         IN  IF "results" \notin DOMAIN sensors THEN None
             ELSE IF sensors.results = <<>> THEN None
             ELSE LET result == sensors.results[1]
                      data == IF "sensors" \in DOMAIN result
                              THEN ATCollect(result.sensors, 1, <<>>)
                              ELSE Raise("KeyError")
                  IN  IF data = Raise("KeyError") THEN None
                      ELSE [room |-> Str("master_bedroom"),
                            pm25 |-> Get(data, "pm25", Num(0)),
                            co2 |-> Get(data, "co2", Num(0)),
                            voc |-> Get(data, "voc", Num(0)),
                            temp |-> Get(data, "temp", Num(0)),
                            humidity |-> Get(data, "humidity", Num(0)),
                            radon |-> Get(data, "radon", Num(0))]

\* scripts/archive/collect_air_multi.get_airgradient_data: raise_for_status
get_airgradient_data_archive(location, response) ==
    IF response.exc \/ response.status # 200 \/ ~response.json \/ ~response.obj
    THEN None
    ELSE [room |-> Str(location),
          pm25 |-> Get(response.data, "pm02Compensated", Num(0)),
          co2 |-> Get(response.data, "rco2", Num(0)),
          voc |-> Get(response.data, "tvocIndex", Num(0)),
          nox |-> Get(response.data, "noxIndex", Num(0)),
          temp |-> Get(response.data, "atmpCompensated", Num(0)),
          humidity |-> Get(response.data, "rhumCompensated", Num(0))]

\* scripts/archive/collect_air_multi.calculate_efficiency: not rounded
calculate_efficiency_archive(indoor_pm25, outdoor_pm25) ==
    IF ~IsNum(outdoor_pm25) THEN Raise("TypeError")
    ELSE IF outdoor_pm25.n > 0
         THEN IF ~IsNum(indoor_pm25) THEN Raise("TypeError")
              ELSE ClampedRatio(indoor_pm25.n, outdoor_pm25.n, 3)
    ELSE Num(0)

\* collect_air_quality.get_airthings_data with get_airthings_token (the
\* single-sensor collector): there is no try block, so the HTTPError of
\* raise_for_status, a RequestException, the KeyError of a missing key and
\* the IndexError of an empty account list all escape to the caller.
get_airthings_data_legacy(env) ==
    IF env.token # "ok" THEN Raise("HTTPError")
    ELSE IF env.accounts = "fail" THEN Raise("KeyError")
    ELSE IF env.accounts = "empty" THEN Raise("IndexError")
    ELSE LET sensors == env.sensors
         IN  IF "results" \notin DOMAIN sensors THEN Raise("KeyError")
             ELSE IF sensors.results = <<>> THEN None
             ELSE LET result == sensors.results[1]
                      data == IF "sensors" \in DOMAIN result
                              THEN ATCollect(result.sensors, 1,
                                       [battery |-> Get(result, "batteryPercentage", None),
                                        timestamp |-> Get(result, "recorded", None)])
                              ELSE Raise("KeyError")
                  IN  data

\* collect_air_quality.get_airgradient_data: raise_for_status, compensated
\* values only, every exception caught
get_airgradient_data_legacy(response) ==
    IF response.exc \/ response.status # 200 \/ ~response.json \/ ~response.obj
    THEN None
    ELSE [pm25 |-> Get(response.data, "pm02Compensated", Num(0)),
          temp |-> Get(response.data, "atmpCompensated", Num(0)),
          humidity |-> Get(response.data, "rhumCompensated", Num(0)),
          co2 |-> Get(response.data, "rco2", Num(0)),
          voc |-> Get(response.data, "tvocIndex", Num(0)),
          nox |-> Get(response.data, "noxIndex", Num(0))]

(***************************************************************************)
(* Rows                                                                    *)
(***************************************************************************)
\* the canonical header list of ensure_headers
Headers ==
    <<"Timestamp", "Sensor_ID", "Room", "Sensor_Type", "Indoor_PM25",
      "Outdoor_PM25", "Filter_Efficiency", "Indoor_CO2", "Indoor_VOC",
      "Indoor_NOX", "Indoor_Temp", "Indoor_Humidity", "Indoor_Radon",
      "Outdoor_CO2", "Outdoor_Temp", "Outdoor_Humidity", "Outdoor_VOC",
      "Outdoor_NOX">>

\* a variant that writes the outdoor columns in the order of the indoor ones
build_air_quality_row_swapped(timestamp, sensor, outdoor_, efficiency) ==
    <<timestamp, sensor.sensor_id, sensor.room, sensor.sensor_type, sensor.pm25,
      outdoor_.pm25, efficiency, sensor.co2, sensor.voc, sensor.nox, sensor.temp,
      sensor.humidity, sensor.radon, outdoor_.co2, outdoor_.voc, outdoor_.nox,
      outdoor_.temp, outdoor_.humidity>>

\* collect_with_sheets_api_v2.build_air_quality_row
build_air_quality_row(timestamp, sensor, outdoor_, efficiency) ==
    <<timestamp, sensor.sensor_id, sensor.room, sensor.sensor_type, sensor.pm25,
      outdoor_.pm25, efficiency, sensor.co2, sensor.voc, sensor.nox, sensor.temp,
      sensor.humidity, sensor.radon, outdoor_.co2, outdoor_.temp,
      outdoor_.humidity, outdoor_.voc, outdoor_.nox>>

\* collect_with_sheets_api_v2.build_temp_only_row
build_temp_only_row(timestamp, sensor) ==
    <<timestamp, sensor.sensor_id, sensor.room, sensor.sensor_type, EmptyStr,
      EmptyStr, EmptyStr, EmptyStr, EmptyStr, EmptyStr, sensor.temp,
      sensor.humidity, EmptyStr, EmptyStr, EmptyStr, EmptyStr, EmptyStr,
      EmptyStr>>

\* the row literal of collect_with_sheets_api.main
build_row_v1(timestamp, sensor, outdoor_, outdoor_pm25, efficiency) ==
    <<timestamp, sensor.sensor_id, sensor.room, sensor.sensor_type, sensor.pm25,
      outdoor_pm25, efficiency, sensor.co2, sensor.voc, sensor.nox, sensor.temp,
      sensor.humidity, sensor.radon, outdoor_.co2, outdoor_.temp,
      outdoor_.humidity, outdoor_.voc, outdoor_.nox>>

(***************************************************************************)
(* One collection cycle: main() of collect_with_sheets_api_v2 ("v2"), of   *)
(* collect_with_sheets_api ("v1") and of scripts/archive/collect_air_multi *)
(* ("archive").                                                            *)
(***************************************************************************)
Timestamp == Str("2025-08-31 12:00:00")

\* an entry of pollLog
Polled(sensor, result) == [sensor |-> sensor, data |-> Truthy(result)]

(***************************************************************************)
(* The spreadsheet gateway.  A sheet is the sequence of the rows of the    *)
(* target range, row 1 first; an empty sheet is <<>>.                      *)
(***************************************************************************)
\* a list of texts as the cells of a row
Cells(names) == [i \in DOMAIN names |-> Str(names[i])]

\* body = {"values": [headers]}
HeaderRow == Cells(Headers)

\* what a gateway call did: the sheet after it, what it returned and the
\* API calls it made
Done(sheet, result, calls) == [sheet |-> sheet, result |-> result, calls |-> calls]

\* a variant that writes the headers whether or not they are there
ensure_headers_always(gen, sheet, backend) ==
    IF backend = "get_fails" THEN Done(sheet, FALSE, <<"values.get">>)
    ELSE IF backend = "update_fails"
         THEN Done(sheet, FALSE, <<"values.get", "values.update">>)
    ELSE Done(<<HeaderRow>> \o (IF sheet = <<>> THEN <<>> ELSE Tail(sheet)),
              TRUE, <<"values.get", "values.update">>)

\* ensure_headers: values.get of A1:R1; when there is no row 1 or it
\* differs from the headers, values.update of A1:R1 with the headers.  Every
\* exception is caught and gives False.  With the headers in place v2
\* returns True and v1 False.
ensure_headers(gen, sheet, backend) ==
    IF backend = "get_fails" THEN Done(sheet, FALSE, <<"values.get">>)
    ELSE IF sheet = <<>> \/ sheet[1] # HeaderRow
         THEN IF backend = "update_fails"
              THEN Done(sheet, FALSE, <<"values.get", "values.update">>)
              ELSE Done(<<HeaderRow>> \o (IF sheet = <<>> THEN <<>> ELSE Tail(sheet)),
                        TRUE, <<"values.get", "values.update">>)
         ELSE Done(sheet, gen = "v2", <<"values.get">>)

\* a variant that does not store a row equal to the last stored one
append_to_sheet_dedup(sheet, values, backend) ==
    IF backend = "appended"
    THEN IF sheet # <<>> /\ sheet[Len(sheet)] = values
         THEN Done(sheet, TRUE, <<"values.append">>)
         ELSE Done(Append(sheet, values), TRUE, <<"values.append">>)
    ELSE Done(sheet, FALSE, <<"values.append">>)

\* append_to_sheet: values.append with INSERT_ROWS; True iff the backend
\* reports updatedRows > 0 (it stored the row, after the last row with
\* data); "no_update" is an answer without updated rows; every exception
\* is caught and gives False.
append_to_sheet(sheet, values, backend) ==
    IF backend = "appended"
    THEN Done(Append(sheet, values), TRUE, <<"values.append">>)
    ELSE Done(sheet, FALSE, <<"values.append">>)

\* the service-account credential file of the deployment: absent; not a
\* service-account document (from_service_account_file raises); well-formed
\* but refused by the backend (revoked key, sheet not shared); accepted
CredentialStates == {"missing", "malformed", "rejected", "valid"}

\* get_sheets_service: None when the file is missing (v2 tests for it, v1
\* catches the FileNotFoundError), when from_service_account_file raises and
\* when build raises; every exception is caught.  Nothing in the function
\* sends an authenticated request.
get_sheets_service(creds, built) ==
    IF creds = "missing" THEN None
    ELSE IF creds = "malformed" THEN None
    ELSE IF built = "raise" THEN None
    ELSE Str("service")

\* what the backend answers to a request of the service: it refuses every
\* request made with rejected credentials
Backend(outcomes, refused) == IF cfg.creds = "rejected" THEN refused ELSE outcomes

\* the deployments: an empty string is an unset (falsy) setting
Config(indoorSerial, tsKey, formId, creds) ==
    [creds |-> creds, outdoorSerial |-> "84fce612ab34", outdoorIp |-> "192.168.1.50",
     indoorSerial |-> indoorSerial, indoorIp |-> "192.168.1.51",
     airthingsSerial |-> "2960129430",
     tsKey |-> tsKey, tsId |-> "TS00123456", formId |-> formId]

ConfigsOf(v) ==
    IF v = "v2" THEN {Config(i, k, "", c) : i \in {"", "d83bda1c5e70"},
                                            k \in {"", "key"}, c \in CredentialStates}
    ELSE IF v = "v1" THEN {Config(i, "", "", c) : i \in {"", "d83bda1c5e70"},
                                                  c \in CredentialStates}
    ELSE {Config(i, "", f, "valid") : i \in {"", "d83bda1c5e70"}, f \in {"", "form"}}

CycleInit ==
    /\ variant \in {"v2", "v1", "archive"}
    /\ cfg \in ConfigsOf(variant)
    /\ pc = IF variant = "archive" THEN "a_master" ELSE "connect"
    /\ service = Unbound
    /\ headerRow \in {<<>>, HeaderRow}
    /\ sheetRows = <<>>
    /\ outdoor = Unbound
    /\ master = Unbound
    /\ second = Unbound
    /\ attic = Unbound
    /\ rows_to_append = <<>>
    /\ sendIdx = 1
    /\ success_count = 0
    /\ pollLog = <<>>
    /\ effLog = <<>>
    /\ appendLog = <<>>
    /\ formPosts = 0
    /\ backupFile = <<>>
    /\ raised = ""

CycleIdle ==
    /\ variant = "none"
    /\ cfg = Config("", "", "", "valid")
    /\ pc = "idle"
    /\ service = Unbound
    /\ headerRow = <<>>
    /\ sheetRows = <<>>
    /\ outdoor = Unbound
    /\ master = Unbound
    /\ second = Unbound
    /\ attic = Unbound
    /\ rows_to_append = <<>>
    /\ sendIdx = 1
    /\ success_count = 0
    /\ pollLog = <<>>
    /\ effLog = <<>>
    /\ appendLog = <<>>
    /\ formPosts = 0
    /\ backupFile = <<>>
    /\ raised = ""

\* a variant that goes on without a service
Connect_proceed ==
    /\ pc = "connect"
    /\ \E built \in {"ok", "raise"} :
           service' = get_sheets_service(cfg.creds, built)
    /\ pc' = "headers"
    /\ UNCHANGED <<variant, cfg, headerRow, sheetRows, outdoor, master, second,
                   attic, rows_to_append, sendIdx, success_count, pollLog,
                   effLog, appendLog, formPosts, backupFile, raised>>

\* service = get_sheets_service(); if not service: return
Connect ==
    /\ pc = "connect"
    /\ \E built \in {"ok", "raise"} :
           /\ service' = get_sheets_service(cfg.creds, built)
           /\ pc' = IF ~Truthy(get_sheets_service(cfg.creds, built))
                    THEN "done" ELSE "headers"
    /\ UNCHANGED <<variant, cfg, headerRow, sheetRows, outdoor, master, second,
                   attic, rows_to_append, sendIdx, success_count, pollLog,
                   effLog, appendLog, formPosts, backupFile, raised>>

\* ensure_headers(service, SPREADSHEET_ID): row 1 is overwritten when it is
\* missing or differs; a backend error is caught and changes nothing.
\* main() does not look at the result.
EnsureHeaders ==
    /\ pc = "headers"
    /\ \E backend \in Backend({"ok", "get_fails", "update_fails"}, {"get_fails"}) :
           LET sheet == IF headerRow = <<>> THEN <<>> ELSE <<headerRow>>
               after == ensure_headers(variant, sheet, backend).sheet
           IN  headerRow' = IF after = <<>> THEN <<>> ELSE after[1]
    /\ pc' = "outdoor"
    /\ UNCHANGED <<variant, cfg, service, sheetRows, outdoor, master, second, attic,
                   rows_to_append, sendIdx, success_count, pollLog, effLog,
                   appendLog, formPosts, backupFile, raised>>

\* the dummy outdoor reading test_local() falls back to
DummyOutdoor ==
    [pm25 |-> Num(10000), co2 |-> Num(420000), voc |-> Num(100000),
     nox |-> Num(1000), temp |-> Num(25000), humidity |-> Num(50000),
     radon |-> Num(0)]

\* a variant that, like test_local(), goes on with dummy outdoor data
\* instead of returning
PollOutdoor_dummy ==
    /\ pc = "outdoor"
    /\ \E r1, r2 \in AGResponses :
           LET o == IF variant = "v2"
                    THEN get_airgradient_data(cfg.outdoorSerial, "outdoor",
                                              cfg.outdoorIp, <<r1, r2>>)
                    ELSE get_airgradient_data_v1(cfg.outdoorSerial, "outdoor", r1)
           IN  /\ outdoor' = IF Truthy(o) THEN o ELSE DummyOutdoor
               /\ pc' = "master"
               /\ pollLog' = Append(pollLog, Polled("outdoor", o))
    /\ UNCHANGED <<variant, cfg, service, headerRow, sheetRows, master, second, attic,
                   rows_to_append, sendIdx, success_count, effLog, appendLog,
                   formPosts, backupFile, raised>>

\* outdoor = get_airgradient_data(...); if not outdoor: return
PollOutdoor ==
    /\ pc = "outdoor"
    /\ \E r1, r2 \in AGResponses :
           LET o == IF variant = "v2"
                    THEN get_airgradient_data(cfg.outdoorSerial, "outdoor",
                                              cfg.outdoorIp, <<r1, r2>>)
                    ELSE get_airgradient_data_v1(cfg.outdoorSerial, "outdoor", r1)
           IN  /\ outdoor' = o
               /\ pc' = IF Truthy(o) THEN "master" ELSE "done"
               /\ pollLog' = Append(pollLog, Polled("outdoor", o))
    /\ UNCHANGED <<variant, cfg, service, headerRow, sheetRows, master, second, attic,
                   rows_to_append, sendIdx, success_count, effLog, appendLog,
                   formPosts, backupFile, raised>>

\* the efficiency of the generation that runs
Efficiency(sensor) ==
    IF variant = "v2" THEN calculate_efficiency(sensor.pm25, outdoor.pm25)
    ELSE calculate_efficiency_v1(sensor.pm25, outdoor.pm25)

RowOf(sensor, efficiency) ==
    IF variant = "v2" THEN build_air_quality_row(Timestamp, sensor, outdoor, efficiency)
    ELSE build_row_v1(Timestamp, sensor, outdoor, outdoor.pm25, efficiency)

\* if sensor: efficiency = ...; rows_to_append.append(row).  An exception of
\* calculate_efficiency ends main().
AirQualityStep(room, sensor, next) ==
    IF ~Truthy(sensor)
    THEN /\ pc' = next
         /\ UNCHANGED <<rows_to_append, effLog, raised>>
    ELSE /\ effLog' = Append(effLog, room)
         /\ IF IsRaise(Efficiency(sensor))
            THEN /\ raised' = Efficiency(sensor).s
                 /\ pc' = "done"
                 /\ UNCHANGED rows_to_append
            ELSE /\ rows_to_append' =
                        Append(rows_to_append, RowOf(sensor, Efficiency(sensor)))
                 /\ pc' = next
                 /\ UNCHANGED raised

\* master = get_airthings_data(); if master: ...
PollMaster ==
    /\ pc = "master"
    /\ \E env \in ATEnvs :
           LET m == IF variant = "v2"
                    THEN get_airthings_data(cfg.airthingsSerial, env)
                    ELSE get_airthings_data_v1(cfg.airthingsSerial, env)
           IN  /\ master' = m
               /\ AirQualityStep("master_bedroom", m, "second")
               /\ pollLog' = Append(pollLog, Polled("master", m))
    /\ UNCHANGED <<variant, cfg, service, headerRow, sheetRows, outdoor, second, attic,
                   sendIdx, success_count, appendLog, formPosts, backupFile>>

\* a variant of the second-bedroom step that goes straight to the appends
PollSecond_noattic ==
    /\ pc = "second"
    /\ IF cfg.indoorSerial = ""
       THEN /\ pc' = "send"
            /\ UNCHANGED <<second, pollLog, rows_to_append, effLog, raised>>
       ELSE \E r1, r2 \in AGResponses :
                LET x == IF variant = "v2"
                         THEN get_airgradient_data(cfg.indoorSerial,
                                  "second_bedroom", cfg.indoorIp, <<r1, r2>>)
                         ELSE get_airgradient_data_v1(cfg.indoorSerial,
                                  "second_bedroom", r1)
                IN  /\ second' = x
                    /\ AirQualityStep("second_bedroom", x, "send")
                    /\ pollLog' = Append(pollLog, Polled("second", x))
    /\ UNCHANGED <<variant, cfg, service, headerRow, sheetRows, outdoor, master, attic,
                   sendIdx, success_count, appendLog, formPosts, backupFile>>

\* if AIRGRADIENT_INDOOR_SERIAL: second = get_airgradient_data(...); if second: ...
PollSecond ==
    /\ pc = "second"
    /\ LET next == IF variant = "v2" THEN "attic" ELSE "send"
       IN  IF cfg.indoorSerial = ""
           THEN /\ pc' = next
                /\ UNCHANGED <<second, pollLog, rows_to_append, effLog, raised>>
           ELSE /\ \E r1, r2 \in AGResponses :
                       LET x == IF variant = "v2"
                                THEN get_airgradient_data(cfg.indoorSerial,
                                         "second_bedroom", cfg.indoorIp, <<r1, r2>>)
                                ELSE get_airgradient_data_v1(cfg.indoorSerial,
                                         "second_bedroom", r1)
                       IN  /\ second' = x
                           /\ AirQualityStep("second_bedroom", x, next)
                           /\ pollLog' = Append(pollLog, Polled("second", x))
    /\ UNCHANGED <<variant, cfg, service, headerRow, sheetRows, outdoor, master, attic,
                   sendIdx, success_count, appendLog, formPosts, backupFile>>

\* attic = get_tempstick_data(); if attic: rows_to_append.append(...)
PollAttic ==
    /\ pc = "attic"
    /\ \E r \in TSResponses :
           LET a == get_tempstick_data(cfg.tsKey, cfg.tsId, r)
           IN  /\ attic' = a
               /\ rows_to_append' = IF Truthy(a)
                                    THEN Append(rows_to_append,
                                                build_temp_only_row(Timestamp, a))
                                    ELSE rows_to_append
               /\ pollLog' = Append(pollLog, Polled("attic", a))
    /\ pc' = "send"
    /\ UNCHANGED <<variant, cfg, service, headerRow, sheetRows, outdoor, master, second,
                   sendIdx, success_count, effLog, appendLog, formPosts,
                   backupFile, raised>>

\* one turn of `for row in rows_to_append: if append_to_sheet(...)`.
\* append_to_sheet catches every backend error and returns False; it returns
\* True iff the backend reports updatedRows > 0.
SendRow ==
    /\ pc = "send"
    /\ sendIdx <= Len(rows_to_append)
    /\ \E backend \in Backend({"appended", "no_update", "HttpError"}, {"HttpError"}) :
           LET call == append_to_sheet(sheetRows, rows_to_append[sendIdx], backend)
           IN  /\ sheetRows' = call.sheet
               /\ success_count' = IF call.result
                                   THEN success_count + 1 ELSE success_count
    /\ appendLog' = Append(appendLog, rows_to_append[sendIdx])
    /\ sendIdx' = sendIdx + 1
    /\ UNCHANGED <<variant, cfg, service, pc, headerRow, outdoor, master, second, attic,
                   rows_to_append, pollLog, effLog, formPosts, backupFile, raised>>

\* the end of the loop and the report; "v2" returns here
Report ==
    /\ pc = "send"
    /\ sendIdx > Len(rows_to_append)
    /\ pc' = IF variant = "v1" THEN "backup" ELSE "done"
    /\ UNCHANGED <<variant, cfg, service, headerRow, sheetRows, outdoor, master, second,
                   attic, rows_to_append, sendIdx, success_count, pollLog,
                   effLog, appendLog, formPosts, backupFile, raised>>

\* "v1": backup = {..., "indoor": [master, second] if second else [master]}
\* and the dump to /tmp/air_quality_latest.json.  `second` is assigned only
\* under `if AIRGRADIENT_INDOOR_SERIAL:`; reading it unassigned raises
\* UnboundLocalError.
SaveBackup ==
    /\ pc = "backup"
    /\ IF second = Unbound
       THEN /\ raised' = "UnboundLocalError"
            /\ UNCHANGED backupFile
       ELSE /\ backupFile' = <<[timestamp |-> Timestamp, outdoor |-> outdoor,
                                indoor |-> IF Truthy(second) THEN <<master, second>>
                                           ELSE <<master>>]>>
            /\ UNCHANGED raised
    /\ pc' = "done"
    /\ UNCHANGED <<variant, cfg, service, headerRow, sheetRows, outdoor, master, second,
                   attic, rows_to_append, sendIdx, success_count, pollLog,
                   effLog, appendLog, formPosts>>

(***************************************************************************)
(* scripts/archive/collect_air_multi.main: all_data holds the readings     *)
(* under "master_bedroom", "second_bedroom" and "outdoor"; here they are   *)
(* the variables master, second and outdoor, Unbound for a key that is not *)
(* in all_data.                                                            *)
(***************************************************************************)
InAllData(x) == x # Unbound /\ x # None

ArchPollMaster ==
    /\ pc = "a_master"
    /\ \E env \in ATEnvs :
           LET m == get_airthings_data_archive(env)
           IN  /\ master' = IF Truthy(m) THEN m ELSE Unbound
               /\ pollLog' = Append(pollLog, Polled("master", m))
    /\ pc' = "a_second"
    /\ UNCHANGED <<variant, cfg, service, headerRow, sheetRows, outdoor, second, attic,
                   rows_to_append, sendIdx, success_count, effLog, appendLog,
                   formPosts, backupFile, raised>>

ArchPollSecond ==
    /\ pc = "a_second"
    /\ IF cfg.indoorSerial = ""
       THEN UNCHANGED <<second, pollLog>>
       ELSE /\ \E r \in AGResponses :
                   LET x == get_airgradient_data_archive("second_bedroom", r)
                   IN  /\ second' = IF Truthy(x) THEN x ELSE Unbound
                       /\ pollLog' = Append(pollLog, Polled("second", x))
    /\ pc' = "a_outdoor"
    /\ UNCHANGED <<variant, cfg, service, headerRow, sheetRows, outdoor, master, attic,
                   rows_to_append, sendIdx, success_count, effLog, appendLog,
                   formPosts, backupFile, raised>>

ArchPollOutdoor ==
    /\ pc = "a_outdoor"
    /\ \E r \in AGResponses :
           LET o == get_airgradient_data_archive("outdoor", r)
           IN  /\ outdoor' = IF Truthy(o) THEN o ELSE Unbound
               /\ pollLog' = Append(pollLog, Polled("outdoor", o))
    /\ pc' = "a_efficiency"
    /\ UNCHANGED <<variant, cfg, service, headerRow, sheetRows, master, second, attic,
                   rows_to_append, sendIdx, success_count, effLog, appendLog,
                   formPosts, backupFile, raised>>

\* if "outdoor" in all_data: for room in [...]: if room in all_data:
\*     efficiency = calculate_efficiency(indoor_pm25, outdoor_pm25)
\* The alert line compares the numbers the calculation already accepted.
ArchEfficiency ==
    /\ pc = "a_efficiency"
    /\ LET eff(x) == calculate_efficiency_archive(x.pm25, outdoor.pm25)
           doM == InAllData(outdoor) /\ InAllData(master)
           failM == doM /\ IsRaise(eff(master))
           doS == InAllData(outdoor) /\ InAllData(second) /\ ~failM
           failS == doS /\ IsRaise(eff(second))
       IN  /\ effLog' = effLog \o (IF doM THEN <<"master_bedroom">> ELSE <<>>)
                               \o (IF doS THEN <<"second_bedroom">> ELSE <<>>)
           /\ raised' = IF failM \/ failS THEN "TypeError" ELSE raised
           /\ pc' = IF failM \/ failS THEN "done" ELSE "a_send"
    /\ UNCHANGED <<variant, cfg, service, headerRow, sheetRows, outdoor, master, second,
                   attic, rows_to_append, sendIdx, success_count, pollLog,
                   appendLog, formPosts, backupFile>>

\* send_to_google_forms(all_data): nothing is sent without a form id or
\* without the master-bedroom or the outdoor reading; the efficiency is
\* computed outside the try block; the POST itself may fail.
ArchSend ==
    /\ pc = "a_send"
    /\ IF cfg.formId = "" \/ ~InAllData(master) \/ ~InAllData(outdoor)
       THEN /\ pc' = "a_backup"
            /\ UNCHANGED <<effLog, raised, formPosts>>
       ELSE /\ effLog' = Append(effLog, "master_bedroom")
            /\ IF IsRaise(calculate_efficiency_archive(master.pm25, outdoor.pm25))
               THEN /\ raised' = "TypeError"
                    /\ pc' = "done"
                    /\ UNCHANGED formPosts
               ELSE /\ \E post \in {"200", "400", "exception"} :
                           formPosts' = formPosts + 1
                    /\ pc' = "a_backup"
                    /\ UNCHANGED raised
    /\ UNCHANGED <<variant, cfg, service, headerRow, sheetRows, outdoor, master, second,
                   attic, rows_to_append, sendIdx, success_count, pollLog,
                   appendLog, backupFile>>

\* json.dump(all_data, f)
ArchBackup ==
    /\ pc = "a_backup"
    /\ backupFile' = <<[master_bedroom |-> master, second_bedroom |-> second,
                        outdoor |-> outdoor]>>
    /\ pc' = "done"
    /\ UNCHANGED <<variant, cfg, service, headerRow, sheetRows, outdoor, master, second,
                   attic, rows_to_append, sendIdx, success_count, pollLog,
                   effLog, appendLog, formPosts, raised>>

(***************************************************************************)
(* Strings                                                                 *)
(***************************************************************************)
CharAt(str, i) == SubSeq(str, i, i)
Contains(str, ch) == \E i \in 1..Len(str) : CharAt(str, i) = ch

UpperCase == "ABCDEFGHIJKLMNOPQRSTUVWXYZ"
LowerCase == "abcdefghijklmnopqrstuvwxyz"

LowerChar(ch) ==
    IF \E i \in 1..Len(UpperCase) : CharAt(UpperCase, i) = ch
    THEN CharAt(LowerCase, CHOOSE i \in 1..Len(UpperCase) : CharAt(UpperCase, i) = ch)
    ELSE ch

\* str.lower()
RECURSIVE Lower(_)
Lower(str) == IF str = "" THEN ""
              ELSE LowerChar(CharAt(str, 1)) \o Lower(SubSeq(str, 2, Len(str)))

\* str.strip()
RECURSIVE Strip(_)
Strip(str) ==
    IF str = "" THEN ""
    ELSE IF CharAt(str, 1) = " " THEN Strip(SubSeq(str, 2, Len(str)))
    ELSE IF CharAt(str, Len(str)) = " " THEN Strip(SubSeq(str, 1, Len(str) - 1))
    ELSE str

(***************************************************************************)
(* fix_sheets_schema.SheetsFixer                                           *)
(***************************************************************************)
\* the most data rows of the sheet the tool is run on
MaxRows == 3

\* cell j of data row idx
Cell(idx, j) == "r" \o ToString(idx) \o "c" \o ToString(j)

RowKinds == {"legacy", "legacy_short", "legacy_long", "new", "new_short", "blank"}

\* a row of the sheet as values.get returns it: a legacy row has its
\* M/D/YYYY timestamp and 14 columns, a row of the new schema an ISO
\* timestamp and 18 columns; short rows lost their empty trailing cells
SheetRow(kind, idx) ==
    LET n == CASE kind = "legacy" -> 14 [] kind = "legacy_short" -> 13
               [] kind = "legacy_long" -> 15
               [] kind = "new" -> 18 [] kind = "new_short" -> 12 [] OTHER -> 0
        ts == IF kind \in {"legacy", "legacy_short", "legacy_long"}
              THEN "7/" \o ToString(20 + idx) \o "/2025 13:27:51"
              ELSE "2025-08-" \o ToString(20 + idx) \o " 09:05:00"
    IN  [j \in 1..n |-> IF j = 1 THEN ts ELSE Cell(idx, j)]

Sheets ==
    {<<>>} \cup
    UNION {{<<Headers>> \o [i \in 1..n |-> SheetRow(kinds[i], i)] :
                kinds \in [1..n -> RowKinds]} : n \in 0..MaxRows}

FixerInit ==
    /\ fxPc = "backup"
    /\ fxSheet \in Sheets
    /\ fxTab = <<>>
    /\ fxBackupFile = <<>>
    /\ fxCsvFile = <<>>
    /\ fxData = <<>>
    /\ fxTransition = None
    /\ fxConverted = <<>>
    /\ fxExisting = <<>>
    /\ fxAllData = <<>>
    /\ fxChoice = ""
    /\ fxConfirm = ""
    /\ fxCalls = <<>>
    /\ fxRaised = ""

FixerIdle ==
    /\ fxPc = "idle"
    /\ fxSheet = <<>>
    /\ fxTab = <<>>
    /\ fxBackupFile = <<>>
    /\ fxCsvFile = <<>>
    /\ fxData = <<>>
    /\ fxTransition = None
    /\ fxConverted = <<>>
    /\ fxExisting = <<>>
    /\ fxAllData = <<>>
    /\ fxChoice = ""
    /\ fxConfirm = ""
    /\ fxCalls = <<>>
    /\ fxRaised = ""

\* backup_data: values.get of A:Z, then the dump of the values to the
\* backup file.  An API error is not caught and ends run().
FxBackup ==
    /\ fxPc = "backup"
    /\ fxCalls' = Append(fxCalls, "values.get")
    /\ \E backend \in {"ok", "HttpError"} :
           IF backend = "ok"
           THEN /\ fxData' = fxSheet
                /\ fxBackupFile' = <<fxSheet>>
                /\ fxPc' = "analyze"
                /\ UNCHANGED fxRaised
           ELSE /\ fxRaised' = "HttpError"
                /\ fxPc' = "done"
                /\ UNCHANGED <<fxData, fxBackupFile>>
    /\ UNCHANGED <<fxSheet, fxTab, fxCsvFile, fxTransition, fxConverted,
                   fxExisting, fxAllData, fxChoice, fxConfirm>>

\* a variant of the scan that numbers the first data row 1
TransitionRow_from1(data) ==
    LET hits == {i \in 2..Len(data) : Len(data[i]) > 0 /\ ~Contains(data[i][1], "/")}
    IN  IF hits = {} THEN None
        ELSE Num((CHOOSE i \in hits : \A j \in hits : i <= j) - 1)

\* the transition scan of analyze_schemas: the 1-indexed sheet row of the
\* first data row whose first column holds no "/", None when there is none
TransitionRow(data) ==
    LET hits == {i \in 2..Len(data) : Len(data[i]) > 0 /\ ~Contains(data[i][1], "/")}
    IN  IF hits = {} THEN None
        ELSE Num(CHOOSE i \in hits : \A j \in hits : i <= j)

\* analyze_schemas: the scan and the report, whose f-string computes
\* transition_row-1 and raises TypeError on None
FxAnalyze ==
    /\ fxPc = "analyze"
    /\ fxTransition' = TransitionRow(fxData)
    /\ IF TransitionRow(fxData) = None
       THEN /\ fxRaised' = "TypeError"
            /\ fxPc' = "done"
       ELSE /\ fxPc' = "convert"
            /\ UNCHANGED fxRaised
    /\ UNCHANGED <<fxSheet, fxTab, fxBackupFile, fxCsvFile, fxData, fxConverted,
                   fxExisting, fxAllData, fxChoice, fxConfirm, fxCalls>>

Digits == "0123456789"
IsDigits(str, lo, hi) ==
    /\ Len(str) >= lo
    /\ Len(str) <= hi
    /\ \A i \in 1..Len(str) : Contains(Digits, CharAt(str, i))
DigitValue(ch) == (CHOOSE i \in 1..10 : CharAt(Digits, i) = ch) - 1
RECURSIVE IntOf(_)
IntOf(str) == IF str = "" THEN 0
              ELSE 10 * IntOf(SubSeq(str, 1, Len(str) - 1))
                   + DigitValue(CharAt(str, Len(str)))
\* the position of the first ch in str at or after from, 0 if none
Find(str, ch, from) ==
    LET hits == {i \in from..Len(str) : CharAt(str, i) = ch}
    IN  IF hits = {} THEN 0 ELSE CHOOSE i \in hits : \A j \in hits : i <= j
Pad2(str) == IF Len(str) = 1 THEN "0" \o str ELSE str

\* datetime.strptime(ts, "%m/%d/%Y %H:%M:%S").strftime("%Y-%m-%d %H:%M:%S"),
\* the string itself when strptime raises ValueError.  (The check of the
\* day against the length of the month is not modelled.)
ReformatTimestamp(ts) ==
    LET s1 == Find(ts, "/", 1)
        s2 == IF s1 = 0 THEN 0 ELSE Find(ts, "/", s1 + 1)
        sp == IF s2 = 0 THEN 0 ELSE Find(ts, " ", s2 + 1)
        c1 == IF sp = 0 THEN 0 ELSE Find(ts, ":", sp + 1)
        c2 == IF c1 = 0 THEN 0 ELSE Find(ts, ":", c1 + 1)
        mo == SubSeq(ts, 1, s1 - 1)
        dd == SubSeq(ts, s1 + 1, s2 - 1)
        yy == SubSeq(ts, s2 + 1, sp - 1)
        hh == SubSeq(ts, sp + 1, c1 - 1)
        mi == SubSeq(ts, c1 + 1, c2 - 1)
        ss == SubSeq(ts, c2 + 1, Len(ts))
        ok == /\ c2 # 0
              /\ IsDigits(mo, 1, 2) /\ IntOf(mo) \in 1..12
              /\ IsDigits(dd, 1, 2) /\ IntOf(dd) \in 1..31
              /\ IsDigits(yy, 4, 4)
              /\ IsDigits(hh, 1, 2) /\ IntOf(hh) \in 0..23
              /\ IsDigits(mi, 1, 2) /\ IntOf(mi) \in 0..59
              /\ IsDigits(ss, 1, 2) /\ IntOf(ss) \in 0..61
    IN  IF ok
        THEN yy \o "-" \o Pad2(mo) \o "-" \o Pad2(dd) \o " "
                \o Pad2(hh) \o ":" \o Pad2(mi) \o ":" \o Pad2(ss)
        ELSE ts

\* a variant that copies the legacy columns positionally, column 7 included
ConvertRow_positional(row) ==
    <<ReformatTimestamp(row[1]), "airthings_129430", "master_bedroom",
      "airthings", row[3], row[4], row[5], row[6], row[7], "", row[8],
      row[9], "", row[10], row[11], row[12], row[13], "">>

\* the new_row literal of convert_old_data
ConvertRow(row) ==
    <<ReformatTimestamp(row[1]), "airthings_129430", "master_bedroom",
      "airthings", row[3], row[4], row[5], row[6], row[7], "", row[9],
      row[10], "", row[11], row[12], row[13], row[14], "">>

HasLegacyWidth(row) == Len(row) >= 14
HasNewWidth(row) == Len(row) = 18

\* data[a:b] with Python's 0-based, end-exclusive bounds (0 <= a)
Slice(data, a, b) == SubSeq(data, a + 1, IF b < Len(data) THEN b ELSE Len(data))

RECURSIVE MapConvert(_)
MapConvert(rows) == IF rows = <<>> THEN <<>>
                    ELSE <<ConvertRow(Head(rows))>> \o MapConvert(Tail(rows))

\* convert_old_data: the rows data[1:transition_row-1] of at least 14
\* columns are converted; the rows data[transition_row-1:] of exactly 18
\* columns are taken as they are
FxConvert ==
    /\ fxPc = "convert"
    /\ fxConverted' = MapConvert(SelectSeq(Slice(fxData, 1, fxTransition.n - 1),
                                           HasLegacyWidth))
    /\ fxExisting' = SelectSeq(Slice(fxData, fxTransition.n - 1, Len(fxData)),
                               HasNewWidth)
    /\ fxPc' = "choose"
    /\ UNCHANGED <<fxSheet, fxTab, fxBackupFile, fxCsvFile, fxData, fxTransition,
                   fxAllData, fxChoice, fxConfirm, fxCalls, fxRaised>>

ChoiceInputs == {"1", "2", "3", " 2 ", "", "4"}
ConfirmInputs == {"yes", "YES", "Yes", " yes", "y", "no", ""}

\* all_data = [headers] + converted_old + existing_new[1:]
AllData(headers, converted_old, existing_new) ==
    <<headers>> \o converted_old \o Slice(existing_new, 1, Len(existing_new))

\* create_new_tab: batchUpdate adds the tab, values.update fills it; an
\* error of either call is caught and reported
CreateNewTab(data) ==
    \E add, write \in {"ok", "HttpError"} :
        /\ fxCalls' = IF add = "ok" THEN fxCalls \o <<"batchUpdate", "values.update">>
                      ELSE Append(fxCalls, "batchUpdate")
        /\ fxTab' = IF add # "ok" THEN fxTab
                    ELSE IF write = "ok" THEN <<data>> ELSE <<<<>>>>

\* replace_existing_data: values.clear of A:Z, then values.update at A1; an
\* error of either call is caught and reported
ReplaceExistingData(data) ==
    \E clear, write \in {"ok", "HttpError"} :
        /\ fxCalls' = IF clear = "ok" THEN fxCalls \o <<"values.clear", "values.update">>
                      ELSE Append(fxCalls, "values.clear")
        /\ fxSheet' = IF clear # "ok" THEN fxSheet
                      ELSE IF write = "ok" THEN data ELSE <<>>

\* create_clean_sheet up to the dispatch on the first prompt: "1" adds the
\* tab, "2" goes on to the second prompt, anything else writes the CSV file
FxChoose ==
    /\ fxPc = "choose"
    /\ \E typed \in ChoiceInputs :
           LET choice == Strip(typed)
               all_data == AllData(Headers, fxConverted, fxExisting)
           IN  /\ fxChoice' = typed
               /\ fxAllData' = all_data
               /\ IF choice = "1"
                  THEN /\ CreateNewTab(all_data)
                       /\ fxPc' = "done"
                       /\ UNCHANGED <<fxSheet, fxCsvFile>>
                  ELSE IF choice = "2"
                  THEN /\ fxPc' = "confirm"
                       /\ UNCHANGED <<fxSheet, fxTab, fxCsvFile, fxCalls>>
                  ELSE /\ fxCsvFile' = <<all_data>>
                       /\ fxPc' = "done"
                       /\ UNCHANGED <<fxSheet, fxTab, fxCalls>>
    /\ UNCHANGED <<fxBackupFile, fxData, fxTransition, fxConverted, fxExisting,
                   fxConfirm, fxRaised>>

\* a variant that replaces the data without looking at the answer
FxConfirm_unasked ==
    /\ fxPc = "confirm"
    /\ \E typed \in ConfirmInputs :
           /\ fxConfirm' = typed
           /\ ReplaceExistingData(fxAllData)
    /\ fxPc' = "done"
    /\ UNCHANGED <<fxTab, fxBackupFile, fxCsvFile, fxData, fxTransition,
                   fxConverted, fxExisting, fxAllData, fxChoice, fxRaised>>

\* the second prompt of create_clean_sheet: the data is replaced when the
\* answer, lowercased, is "yes"
FxConfirm ==
    /\ fxPc = "confirm"
    /\ \E typed \in ConfirmInputs :
           /\ fxConfirm' = typed
           /\ IF Lower(typed) = "yes"
              THEN ReplaceExistingData(fxAllData)
              ELSE UNCHANGED <<fxSheet, fxCalls>>
    /\ fxPc' = "done"
    /\ UNCHANGED <<fxTab, fxBackupFile, fxCsvFile, fxData, fxTransition,
                   fxConverted, fxExisting, fxAllData, fxChoice, fxRaised>>

(***************************************************************************)
(* The calculators applied to drawn inputs.                                *)
(***************************************************************************)
CalcInputs == {Num(n) : n \in (0 - MaxPM)..MaxPM} \cup {None}

CalcDrawn ==
    /\ calcPc = "drawn"
    /\ calcIndoor \in CalcInputs
    /\ calcOutdoor \in CalcInputs
    /\ calcResult = None
    /\ calcV1 = None

CalcIdle ==
    /\ calcPc = "idle"
    /\ calcIndoor = None
    /\ calcOutdoor = None
    /\ calcResult = None
    /\ calcV1 = None

ApplyCalc ==
    /\ calcPc = "drawn"
    /\ calcPc' = "applied"
    /\ calcResult' = calculate_efficiency(calcIndoor, calcOutdoor)
    /\ calcV1' = calculate_efficiency_v1(calcIndoor, calcOutdoor)
    /\ UNCHANGED <<calcIndoor, calcOutdoor>>


(***************************************************************************)
(* The sensor adapters called on drawn inputs.                             *)
(***************************************************************************)
\* the payloads that lack both fields of a compensated/raw pair
AGPairs == {<<"pm02Compensated", "pm02">>, <<"atmpCompensated", "atmp">>,
            <<"rhumCompensated", "rhum">>}

AGAdapterResponses ==
    AGResponses \cup {Http(200, Without(Without(AGFull(4000), p[1]), p[2])) : p \in AGPairs}

\* serial and ip as the environment gives them: unset, the placeholder of
\* the defaults, or a real value
AdapterSerials == {"", "XXXXXX", "84fce612ab34"}
AdapterIps == {"", "192.168.X.XX", "192.168.1.50"}

AdapterInput(serial, ip, key, sensorId, r1, r2, env) ==
    [serial |-> serial, ip |-> ip, key |-> key, sensorId |-> sensorId,
     r1 |-> r1, r2 |-> r2, env |-> env]

NoEnv == [token |-> "fail", accounts |-> "ok", sensors |-> [results |-> <<>>]]

AdapterInputs(fn) ==
    CASE fn = "airthings" ->
             {AdapterInput(sn, "", "", "", Timeout, Timeout, env) :
                  sn \in {"", "2960129430"}, env \in ATEnvs}
      [] fn = "airgradient" ->
             {AdapterInput(sn, ip, "", "", r1, r2, NoEnv) :
                  sn \in AdapterSerials, ip \in AdapterIps,
                  r1 \in AGAdapterResponses, r2 \in AGAdapterResponses}
      [] fn = "tempstick" ->
             {AdapterInput("", "", k, id, r, Timeout, NoEnv) :
                  k \in {"", "key"}, id \in {"", "TS00123456"}, r \in TSResponses}
      [] fn = "airthings_legacy" ->
             {AdapterInput("2960129430", "", "", "", Timeout, Timeout, env) :
                  env \in ATEnvs}
      [] OTHER ->
             {AdapterInput("84fce612ab34", "", "", "", r, Timeout, NoEnv) :
                  r \in AGAdapterResponses}

AdapterDrawn ==
    /\ adPc = "ready"
    /\ adFn \in {"airthings", "airgradient", "tempstick", "airthings_legacy",
                 "airgradient_legacy"}
    /\ adIn \in AdapterInputs(adFn)
    /\ adResult = None
    /\ adRequests = <<>>

AdapterIdle ==
    /\ adPc = "idle"
    /\ adFn = ""
    /\ adIn = AdapterInput("", "", "", "", Timeout, Timeout, NoEnv)
    /\ adResult = None
    /\ adRequests = <<>>

CallAirthings ==
    /\ adPc = "ready"
    /\ adFn = "airthings"
    /\ adResult' = get_airthings_data(adIn.serial, adIn.env)
    /\ adPc' = "done"
    /\ UNCHANGED <<adFn, adIn, adRequests>>

CallAirGradient ==
    /\ adPc = "ready"
    /\ adFn = "airgradient"
    /\ LET call == get_airgradient_call(adIn.serial, "outdoor", adIn.ip,
                                        <<adIn.r1, adIn.r2>>)
       IN  /\ adResult' = call.result
           /\ adRequests' = call.requests
    /\ adPc' = "done"
    /\ UNCHANGED <<adFn, adIn>>

CallTempStick ==
    /\ adPc = "ready"
    /\ adFn = "tempstick"
    /\ LET call == get_tempstick_call(adIn.key, adIn.sensorId, adIn.r1)
       IN  /\ adResult' = call.result
           /\ adRequests' = call.requests
    /\ adPc' = "done"
    /\ UNCHANGED <<adFn, adIn>>

CallAirthingsLegacy ==
    /\ adPc = "ready"
    /\ adFn = "airthings_legacy"
    /\ adResult' = get_airthings_data_legacy(adIn.env)
    /\ adPc' = "done"
    /\ UNCHANGED <<adFn, adIn, adRequests>>

CallAirGradientLegacy ==
    /\ adPc = "ready"
    /\ adFn = "airgradient_legacy"
    /\ adResult' = get_airgradient_data_legacy(adIn.r1)
    /\ adPc' = "done"
    /\ UNCHANGED <<adFn, adIn, adRequests>>

(***************************************************************************)
(* The spreadsheet gateway called repeatedly on one sheet.                 *)
(***************************************************************************)
\* the most gateway calls made on the sheet
MaxCalls == 4

\* the header row of the 14-column sheet the forms submissions wrote
OldHeaders ==
    <<"Timestamp", "ISO_Timestamp", "Indoor_PM25", "Outdoor_PM25",
      "Filter_Efficiency", "Indoor_CO2", "Indoor_VOC", "Days_Since_Install",
      "Indoor_Temp", "Indoor_Humidity", "Outdoor_CO2", "Outdoor_Temp",
      "Outdoor_Humidity", "Outdoor_VOC">>

\* the rows handed to append_to_sheet
GatewayRows ==
    {build_temp_only_row(Timestamp, TSReading("TS00123456", d)) :
         d \in {[last_temp |-> Num(31456), last_humidity |-> Num(50800)],
                [last_temp |-> Num(29000), last_humidity |-> Num(61000)]}}

NoCall == [fn |-> "", backend |-> "", row |-> <<>>, result |-> FALSE, calls |-> <<>>]

GatewayOpen ==
    /\ gwPc = "open"
    /\ gwGen \in {"v2", "v1"}
    /\ gwSheet \in {<<>>, <<HeaderRow>>, <<Cells(OldHeaders)>>}
                     \cup {<<HeaderRow, r>> : r \in GatewayRows}
                     \cup {<<r>> : r \in GatewayRows}
    /\ gwBefore = gwSheet
    /\ gwLast = NoCall
    /\ gwPrev = NoCall
    /\ gwCount = 0

GatewayIdle ==
    /\ gwPc = "idle"
    /\ gwGen = ""
    /\ gwSheet = <<>>
    /\ gwBefore = <<>>
    /\ gwLast = NoCall
    /\ gwPrev = NoCall
    /\ gwCount = 0

CallEnsureHeaders ==
    /\ gwPc = "open"
    /\ gwCount < MaxCalls
    /\ \E backend \in {"ok", "get_fails", "update_fails"} :
           LET call == ensure_headers(gwGen, gwSheet, backend)
           IN  /\ gwSheet' = call.sheet
               /\ gwLast' = [fn |-> "ensure_headers", backend |-> backend,
                             row |-> <<>>, result |-> call.result,
                             calls |-> call.calls]
    /\ gwBefore' = gwSheet
    /\ gwPrev' = gwLast
    /\ gwCount' = gwCount + 1
    /\ UNCHANGED <<gwPc, gwGen>>

CallAppendToSheet ==
    /\ gwPc = "open"
    /\ gwCount < MaxCalls
    /\ \E values \in GatewayRows, backend \in {"appended", "no_update", "HttpError"} :
           LET call == append_to_sheet(gwSheet, values, backend)
           IN  /\ gwSheet' = call.sheet
               /\ gwLast' = [fn |-> "append_to_sheet", backend |-> backend,
                             row |-> values, result |-> call.result,
                             calls |-> call.calls]
    /\ gwBefore' = gwSheet
    /\ gwPrev' = gwLast
    /\ gwCount' = gwCount + 1
    /\ UNCHANGED <<gwPc, gwGen>>

(***************************************************************************)
(* Phase segmentation: AirQualityAnalyzer.add_phase_labels of              *)
(* old_versions/data-analyzer.py and the periods of                        *)
(* analyze_historical.analyze_filter_impact.  Time is counted in steps     *)
(* from the first possible record; the three installation events lie at    *)
(* steps of the timeline.                                                  *)
(***************************************************************************)
\* the last time step a record can have
MaxTime == 7

\* self.timeline / HVAC_INSTALL, ERV_INSTALL, FILTER_UPGRADE
Timeline == [hvac_install |-> 2, erv_install |-> 4, filter_upgrade |-> 6]

\* sort_index(): the timestamps of a set of records in ascending order
RECURSIVE SortedIndex(_)
SortedIndex(times) ==
    IF times = {} THEN <<>>
    ELSE LET first == CHOOSE t \in times : \A u \in times : t <= u
         IN  <<first>> \o SortedIndex(times \ {first})

\* self.data.loc[index >= since, 'phase'] = phase
Relabel(labels, index, since, phase) ==
    [i \in DOMAIN labels |-> IF index[i] >= since THEN phase ELSE labels[i]]

\* add_phase_labels: the phase column
add_phase_labels(index) ==
    LET baseline == [i \in DOMAIN index |-> "baseline"]
        hvac == Relabel(baseline, index, Timeline.hvac_install, "hvac_only")
        erv == Relabel(hvac, index, Timeline.erv_install, "hvac_erv")
    IN  Relabel(erv, index, Timeline.filter_upgrade, "merv13")

\* df.loc[start:end] on a sorted DatetimeIndex: the rows from start to end,
\* both ends included
LocSlice(index, start, end) ==
    {i \in DOMAIN index : start <= index[i] /\ index[i] <= end}

\* analyze_filter_impact: the rows of the four periods
analyze_filter_impact(index) ==
    [Baseline |-> LocSlice(index, index[1], Timeline.hvac_install),
     HVACOnly |-> LocSlice(index, Timeline.hvac_install, Timeline.erv_install),
     HVACERV |-> LocSlice(index, Timeline.erv_install, Timeline.filter_upgrade),
     MERV13 |-> LocSlice(index, Timeline.filter_upgrade, index[Len(index)])]

NoPeriods == [Baseline |-> {}, HVACOnly |-> {}, HVACERV |-> {}, MERV13 |-> {}]

PhaseStart ==
    /\ phPc = "ready"
    /\ phFn \in {"add_phase_labels", "analyze_filter_impact"}
    /\ phIndex \in {SortedIndex(times) : times \in (SUBSET (0..MaxTime)) \ {{}}}
    /\ phLabels = <<>>
    /\ phPeriods = NoPeriods

PhaseIdle ==
    /\ phPc = "idle"
    /\ phFn = ""
    /\ phIndex = <<>>
    /\ phLabels = <<>>
    /\ phPeriods = NoPeriods

CallAddPhaseLabels ==
    /\ phPc = "ready"
    /\ phFn = "add_phase_labels"
    /\ phLabels' = add_phase_labels(phIndex)
    /\ phPc' = "done"
    /\ UNCHANGED <<phFn, phIndex, phPeriods>>

CallAnalyzeFilterImpact ==
    /\ phPc = "ready"
    /\ phFn = "analyze_filter_impact"
    /\ phPeriods' = analyze_filter_impact(phIndex)
    /\ phPc' = "done"
    /\ UNCHANGED <<phFn, phIndex, phLabels>>

(***************************************************************************)
(* scripts/setup_google_sheets_api.check_setup.  The files are read only;  *)
(* .gitignore is <<>> when the file is missing, else <<its lines>>.        *)
(***************************************************************************)
\* `sub in text`
HasSubstring(text, sub) ==
    \E i \in 1..(Len(text) - Len(sub) + 1) : SubSeq(text, i, i + Len(sub) - 1) = sub

DefaultCredsPath == "google-credentials.json"

\* GOOGLE_CREDENTIALS_PATH: unset (the default applies) or a custom path
CredsPaths == {DefaultCredsPath, "secrets/sa.json"}

\* the credential file: missing, a service-account object, text that is
\* not JSON, or JSON that is not an object
CredsFiles == {"missing", "valid", "not_json", "not_object"}

IgnoreLines == {"google-credentials.json", "secrets/", ".env"}

SetupEnv(credsPath, credsFile, gitignore, sheetId, libs) ==
    [credsPath |-> credsPath, credsFile |-> credsFile, gitignore |-> gitignore,
     sheetId |-> sheetId, libs |-> libs]

SetupEnvs ==
    {SetupEnv(cp, cf, gi, id, libs) :
        cp \in CredsPaths, cf \in CredsFiles,
        gi \in {<<>>} \cup {<<lines>> : lines \in SUBSET IgnoreLines},
        id \in {"", "1AbCdEf"}, libs \in {"installed", "partial", "missing"}}

\* check_setup: the value of all_good after the four checks and the
\* summary printed
check_setup(env) ==
    LET credsRead == env.credsFile = "valid"
        good1 == env.credsFile # "missing" /\ credsRead
        good2 == IF env.gitignore # <<>>
                 THEN \E line \in env.gitignore[1] :
                          HasSubstring(line, "google-credentials.json")
                 ELSE TRUE
        good3 == env.sheetId # ""
        good4 == env.libs = "installed"
        all_good == good1 /\ good2 /\ good3 /\ good4
    IN  IF all_good /\ env.sheetId # "" /\ env.credsFile # "missing"
        THEN "pass" ELSE "fail"

SetupStart ==
    /\ suPc = "ready"
    /\ suEnv \in SetupEnvs
    /\ suSummary = ""

SetupIdle ==
    /\ suPc = "idle"
    /\ suEnv = SetupEnv("", "missing", <<>>, "", "missing")
    /\ suSummary = ""

\* python setup_google_sheets_api.py
CheckSetup ==
    /\ suPc = "ready"
    /\ suSummary' = check_setup(suEnv)
    /\ suPc' = "done"
    /\ UNCHANGED suEnv

(***************************************************************************)
(* old_versions/scheduler.py.  AirthingsClient and save_data come from a   *)
(* module outside this repository; a collection meets one of their         *)
(* outcomes.                                                               *)
(***************************************************************************)
\* the loop iterations followed
MaxLoops == 3

\* what a collection meets: data saved, an empty account list, an exception
\* of the client or of save_data, or Ctrl+C while it runs
CollectOutcomes == {"ok", "no_accounts", "raises", "interrupt"}

Collected(events, escaped) == [events |-> events, escaped |-> escaped]

\* a variant without the try/except of collect_and_save
collect_and_save_nocatch(outcome) ==
    CASE outcome = "ok" -> Collected(<<"collect:saved">>, "")
      [] outcome = "no_accounts" -> Collected(<<"collect:no_accounts_logged">>, "")
      [] outcome = "raises" -> Collected(<<"collect:failed">>, "Exception")
      [] OTHER -> Collected(<<"collect:interrupted">>, "KeyboardInterrupt")

\* collect_and_save: `except Exception` logs the error and the function
\* returns; a KeyboardInterrupt is no Exception and escapes
collect_and_save(outcome) ==
    CASE outcome = "ok" -> Collected(<<"collect:saved">>, "")
      [] outcome = "no_accounts" -> Collected(<<"collect:no_accounts_logged">>, "")
      [] outcome = "raises" -> Collected(<<"collect:error_logged">>, "")
      [] OTHER -> Collected(<<"collect:interrupted">>, "KeyboardInterrupt")

SchedStart ==
    /\ scMode \in {"once", "loop"}
    /\ scPc = "main"
    /\ scTrace = <<>>
    /\ scIter = 0
    /\ scCause = ""

SchedIdle ==
    /\ scMode = ""
    /\ scPc = "idle"
    /\ scTrace = <<>>
    /\ scIter = 0
    /\ scCause = ""

\* __main__ with --once: collect_and_save() and the end of the script
RunOnce ==
    /\ scPc = "main"
    /\ scMode = "once"
    /\ \E outcome \in CollectOutcomes :
           LET call == collect_and_save(outcome)
           IN  /\ scTrace' = scTrace \o call.events
               /\ scCause' = call.escaped
               /\ scPc' = IF call.escaped = "" THEN "exited" ELSE "crashed"
    /\ UNCHANGED <<scMode, scIter>>

\* run_scheduler up to the loop: the jobs are registered and
\* collect_and_save() runs once, outside any try
RunImmediately ==
    /\ scPc = "main"
    /\ scMode = "loop"
    /\ \E outcome \in CollectOutcomes :
           LET call == collect_and_save(outcome)
           IN  /\ scTrace' = scTrace \o call.events
               /\ scCause' = call.escaped
               /\ scPc' = IF call.escaped = "" THEN "pending" ELSE "crashed"
    /\ UNCHANGED <<scMode, scIter>>

\* schedule.run_pending() inside the try: no job is due, a job is due and
\* collect_and_save runs, the call itself raises, or Ctrl+C arrives
RunPending ==
    /\ scPc = "pending"
    /\ scIter < MaxLoops
    /\ scIter' = scIter + 1
    /\ \E what \in CollectOutcomes \cup {"idle", "scheduler_raises", "scheduler_interrupt"} :
           LET call == IF what \in CollectOutcomes THEN collect_and_save(what)
                       ELSE IF what = "idle" THEN Collected(<<>>, "")
                       ELSE IF what = "scheduler_raises"
                            THEN Collected(<<>>, "Exception")
                       ELSE Collected(<<>>, "KeyboardInterrupt")
           IN  IF call.escaped = ""
               THEN /\ scTrace' = scTrace \o call.events
                    /\ scPc' = "sleep60"
                    /\ UNCHANGED scCause
               ELSE IF call.escaped = "KeyboardInterrupt"
               THEN /\ scTrace' = scTrace \o call.events \o <<"stopped_by_user">>
                    /\ scPc' = "exited"
                    /\ scCause' = "KeyboardInterrupt"
               ELSE /\ scTrace' = scTrace \o call.events \o <<"scheduler_error_logged">>
                    /\ scPc' = "sleep300"
                    /\ UNCHANGED scCause
    /\ UNCHANGED scMode

\* time.sleep(60) inside the try; Ctrl+C during it is caught and breaks
SleepMinute ==
    /\ scPc = "sleep60"
    /\ \E slept \in BOOLEAN :
           IF slept
           THEN /\ scTrace' = Append(scTrace, "sleep:60")
                /\ scPc' = "pending"
                /\ UNCHANGED scCause
           ELSE /\ scTrace' = Append(scTrace, "stopped_by_user")
                /\ scPc' = "exited"
                /\ scCause' = "KeyboardInterrupt"
    /\ UNCHANGED <<scMode, scIter>>

\* time.sleep(300) inside the `except Exception` clause; Ctrl+C during it
\* is outside the try body and escapes
SleepFiveMinutes ==
    /\ scPc = "sleep300"
    /\ \E slept \in BOOLEAN :
           IF slept
           THEN /\ scTrace' = Append(scTrace, "sleep:300")
                /\ scPc' = "pending"
                /\ UNCHANGED scCause
           ELSE /\ scTrace' = scTrace
                /\ scPc' = "crashed"
                /\ scCause' = "KeyboardInterrupt"
    /\ UNCHANGED <<scMode, scIter>>

(***************************************************************************)
(* scripts/dashboard.py: load_raw and get_data over the cache file and the *)
(* session state.  A DataFrame is the version of the spreadsheet contents  *)
(* it was fetched from and whether it carries the helper column            *)
(* _orig_cols.                                                             *)
(***************************************************************************)
\* how often the clock advances in a run
MaxTicks == 4
\* the versions the spreadsheet goes through while the collector appends
MaxVersion == 3

\* `if cache_age < 3600`
CacheTtl == 3600

\* the seconds the clock advances by
ClockSteps == {1, 3599}

Frame(version, helper) == [version |-> version, orig_cols |-> helper]

\* _fetch_from_sheets: the frame of the current contents, with _orig_cols;
\* an API error is not caught
fetch_from_sheets(sheet, backend) ==
    IF backend = "HttpError" THEN Raise("HttpError") ELSE Frame(sheet, TRUE)

\* _save_parquet: the frame without _orig_cols is written; the file's
\* modification time is the time of the write
save_parquet(df, now) == <<[data |-> Frame(df.version, FALSE), mtime |-> now]>>

\* pd.read_parquet(PARQUET_CACHE)
read_parquet(cache) == cache[1].data

Loaded(df, cache, source) == [df |-> df, cache |-> cache, source |-> source]

\* a variant that reads a cache of exactly one hour
load_raw_le(force_refresh, cache, now, sheet, backend) ==
    IF ~force_refresh /\ cache # <<>> /\ now - cache[1].mtime <= CacheTtl
    THEN Loaded(read_parquet(cache), cache, "cache")
    ELSE LET df == fetch_from_sheets(sheet, backend)
         IN  IF df = Raise("HttpError") THEN Loaded(df, cache, "sheets")
             ELSE IF backend = "save_fails"
                  THEN Loaded(Raise("OSError"), cache, "sheets")
             ELSE Loaded(df, save_parquet(df, now), "sheets")

\* load_raw: the frame returned (or the exception that escaped), the cache
\* file afterwards and where the frame came from
load_raw(force_refresh, cache, now, sheet, backend) ==
    IF ~force_refresh /\ cache # <<>> /\ now - cache[1].mtime < CacheTtl
    THEN Loaded(read_parquet(cache), cache, "cache")
    ELSE LET df == fetch_from_sheets(sheet, backend)
         IN  IF df = Raise("HttpError") THEN Loaded(df, cache, "sheets")
             ELSE IF backend = "save_fails"
                  THEN Loaded(Raise("OSError"), cache, "sheets")
             ELSE Loaded(df, save_parquet(df, now), "sheets")

\* precompute: the hourly and daily aggregates of a frame; st.cache_data
\* memoizes it by the frame's contents, so it is a function of the frame.
\* It reads Room, Timestamp and the metric columns, not _orig_cols.
precompute(df_raw) ==
    [hourly |-> [freq |-> "1h", of |-> df_raw.version],
     daily |-> [freq |-> "1D", of |-> df_raw.version]]

\* session_state[key] = value
SetKey(d, key, value) ==
    [x \in (DOMAIN d) \cup {key} |-> IF x = key THEN value ELSE d[x]]

SessionData(session) ==
    <<session["_cached_raw"], session["_cached_hourly"], session["_cached_daily"]>>

Got(session, cache, result, source, failed) ==
    [session |-> session, cache |-> cache, result |-> result, source |-> source,
     raised |-> failed]

\* a variant that leaves the refresh flag in the session
get_data_keepflag(session, cache, now, sheet, backend) ==
    LET force == Get(session, "_force_refresh", FALSE)
        popped == IF force
                  THEN Without(Without(Without(session, "_cached_raw"),
                                       "_cached_hourly"), "_cached_daily")
                  ELSE session
    IN  IF "_cached_raw" \notin DOMAIN popped \/ force
        THEN LET load == load_raw(force, cache, now, sheet, backend)
             IN  IF load.df \in {Raise("HttpError"), Raise("OSError")}
                 THEN Got(popped, load.cache, load.df, load.source, TRUE)
                 ELSE LET agg == precompute(load.df)
                          kept == SetKey(SetKey(SetKey(popped, "_cached_raw", load.df),
                                                "_cached_hourly", agg.hourly),
                                         "_cached_daily", agg.daily)
                      IN  Got(kept, load.cache, SessionData(kept), load.source, FALSE)
        ELSE Got(popped, cache, SessionData(popped), "session", FALSE)

\* get_data: the session state and the cache file afterwards, what was
\* returned (or the exception that escaped) and where the data came from
get_data(session, cache, now, sheet, backend) ==
    LET force == Get(session, "_force_refresh", FALSE)
        popped == IF force
                  THEN Without(Without(Without(Without(session, "_force_refresh"),
                                               "_cached_raw"),
                                       "_cached_hourly"), "_cached_daily")
                  ELSE session
    IN  IF "_cached_raw" \notin DOMAIN popped \/ force
        THEN LET load == load_raw(force, cache, now, sheet, backend)
             IN  IF load.df \in {Raise("HttpError"), Raise("OSError")}
                 THEN Got(popped, load.cache, load.df, load.source, TRUE)
                 ELSE LET agg == precompute(load.df)
                          kept == SetKey(SetKey(SetKey(popped, "_cached_raw", load.df),
                                                "_cached_hourly", agg.hourly),
                                         "_cached_daily", agg.daily)
                      IN  Got(kept, load.cache, SessionData(kept), load.source, FALSE)
        ELSE Got(popped, cache, SessionData(popped), "session", FALSE)

\* the age of the cache file, -1 when there is none
CacheAge(cache, now) == IF cache = <<>> THEN -1 ELSE now - cache[1].mtime

NoLoad == [force |-> FALSE, age |-> -1, source |-> "", raised |-> FALSE,
           result |-> <<>>]

DashStart ==
    /\ dbNow = 0
    /\ dbTicks = 0
    /\ dbSheet = 1
    /\ dbCache \in {<<>>, save_parquet(Frame(1, TRUE), 0)}
    /\ dbSession = <<>>
    /\ dbLast = NoLoad
    /\ dbCount = 0

DashIdle ==
    /\ dbNow = 0
    /\ dbTicks = 0
    /\ dbSheet = 0
    /\ dbCache = <<>>
    /\ dbSession = <<>>
    /\ dbLast = NoLoad
    /\ dbCount = 0

ToolsIdle == DashIdle /\ SchedIdle /\ SetupIdle /\ PhaseIdle

\* a page calls get_data()
GetData ==
    /\ dbCount < MaxCalls
    /\ \E backend \in {"ok", "HttpError", "save_fails"} :
           LET call == get_data(dbSession, dbCache, dbNow, dbSheet, backend)
           IN  /\ dbSession' = call.session
               /\ dbCache' = call.cache
               /\ dbLast' = [force |-> Get(dbSession, "_force_refresh", FALSE),
                             age |-> CacheAge(dbCache, dbNow),
                             source |-> call.source, raised |-> call.raised,
                             result |-> call.result]
    /\ dbCount' = dbCount + 1
    /\ UNCHANGED <<dbNow, dbTicks, dbSheet>>

\* the operator presses "Refresh from Sheets" in the sidebar of a rendered
\* page; st.rerun() then runs the page and its get_data() again
PressRefresh ==
    /\ "_cached_raw" \in DOMAIN dbSession
    /\ dbSession' = SetKey(dbSession, "_force_refresh", TRUE)
    /\ UNCHANGED <<dbNow, dbTicks, dbSheet, dbCache, dbLast, dbCount>>

\* a new browser session starts with an empty session state
NewSession ==
    /\ dbSession # <<>>
    /\ dbSession' = <<>>
    /\ UNCHANGED <<dbNow, dbTicks, dbSheet, dbCache, dbLast, dbCount>>

\* time passes
ClockAdvances ==
    /\ dbTicks < MaxTicks
    /\ \E d \in ClockSteps : dbNow' = dbNow + d
    /\ dbTicks' = dbTicks + 1
    /\ UNCHANGED <<dbSheet, dbCache, dbSession, dbLast, dbCount>>

\* the collector appends rows to the spreadsheet
SheetAppended ==
    /\ dbSheet < MaxVersion
    /\ dbSheet' = dbSheet + 1
    /\ UNCHANGED <<dbNow, dbTicks, dbCache, dbSession, dbLast, dbCount>>

(***************************************************************************)
(* Properties of the collection cycle                                      *)
(***************************************************************************)
PollOrder == [i \in DOMAIN pollLog |-> pollLog[i].sensor]
OutdoorFailed ==
    \E i \in DOMAIN pollLog : pollLog[i] = [sensor |-> "outdoor", data |-> FALSE]
OutdoorObtained ==
    \E i \in DOMAIN pollLog : pollLog[i] = [sensor |-> "outdoor", data |-> TRUE]
IsPrefix(a, b) == Len(a) <= Len(b) /\ \A i \in DOMAIN a : a[i] = b[i]
Col(name) == CHOOSE i \in DOMAIN Headers : Headers[i] = name

\* C1: in main() of collect_with_sheets_api_v2 and of collect_with_sheets_api,
\* when the outdoor fetch returns no data the cycle is over at once: no
\* indoor adapter is called, no row is built and append_to_sheet is never
\* called.
C1_NoAppendWithoutOutdoor ==
    (variant \in {"v1", "v2"} /\ OutdoorFailed) =>
        /\ pc = "done"
        /\ Len(pollLog) = 1
        /\ rows_to_append = <<>>
        /\ appendLog = <<>>
        /\ sheetRows = <<>>

C1_Witness == variant = "v2" /\ OutdoorFailed /\ pc = "done"

\* C2: every cycle of collect_with_sheets_api.main and of
\* collect_with_sheets_api_v2.main that obtained an outdoor reading has
\* written the JSON backup when it ends (stated for the cycles that reach
\* the end of main() without an exception, whatever the appends returned).
C2_BackupAlwaysWritten ==
    (variant \in {"v1", "v2"} /\ pc = "done" /\ raised = "" /\ OutdoorObtained) =>
        backupFile # <<>>

\* C3: in collect_with_sheets_api_v2.main, once the outdoor reading is
\* there, the cycle calls every indoor adapter, every indoor sensor that
\* returned data has exactly one row passed to append_to_sheet, and every
\* built row is passed whatever the earlier appends returned.
RoomOf(sensor) ==
    IF sensor = "master" THEN Str("master_bedroom")
    ELSE IF sensor = "second" THEN Str("second_bedroom")
    ELSE Str("attic")

C3_IndoorFailureIsolated ==
    (variant = "v2" /\ pc = "done" /\ OutdoorObtained) =>
        /\ \E i \in DOMAIN pollLog : pollLog[i].sensor = "attic"
        /\ \A i \in DOMAIN pollLog :
               (pollLog[i].sensor # "outdoor" /\ pollLog[i].data) =>
                   Cardinality({j \in DOMAIN appendLog :
                       appendLog[j][Col("Room")] = RoomOf(pollLog[i].sensor)}) = 1
        /\ Len(appendLog) = Len(rows_to_append)

ExpectedOrder ==
    LET sec == IF cfg.indoorSerial = "" THEN <<>> ELSE <<"second">>
    IN  IF variant = "archive" THEN <<"master">> \o sec \o <<"outdoor">>
        ELSE IF variant = "v1" THEN <<"outdoor", "master">> \o sec
        ELSE <<"outdoor", "master">> \o sec \o <<"attic">>

SensorOfRoom(room) ==
    IF room = Str("master_bedroom") THEN master
    ELSE IF room = Str("second_bedroom") THEN second
    ELSE attic

C9_RowOk(row) ==
    /\ Len(row) = Len(Headers)
    /\ Len(row) = 18
    /\ LET sensor == SensorOfRoom(row[Col("Room")])
           F(name) == row[Col(name)]
       IN  /\ F("Timestamp") = Timestamp
           /\ F("Sensor_ID") = sensor.sensor_id
           /\ F("Room") = sensor.room
           /\ F("Sensor_Type") = sensor.sensor_type
           /\ F("Indoor_Temp") = sensor.temp
           /\ F("Indoor_Humidity") = sensor.humidity
           /\ IF sensor.sensor_type = Str("tempstick")
              THEN \A i \in DOMAIN row :
                       Headers[i] \notin {"Timestamp", "Sensor_ID", "Room",
                                          "Sensor_Type", "Indoor_Temp",
                                          "Indoor_Humidity"}
                           => row[i] = EmptyStr
              ELSE /\ F("Indoor_PM25") = sensor.pm25
                   /\ F("Outdoor_PM25") = outdoor.pm25
                   /\ IsNum(F("Filter_Efficiency"))
                   /\ F("Filter_Efficiency").n \in 0..100000
                   /\ F("Indoor_CO2") = sensor.co2
                   /\ F("Indoor_VOC") = sensor.voc
                   /\ F("Indoor_NOX") = sensor.nox
                   /\ F("Indoor_Radon") = sensor.radon
                   /\ F("Outdoor_CO2") = outdoor.co2
                   /\ F("Outdoor_Temp") = outdoor.temp
                   /\ F("Outdoor_Humidity") = outdoor.humidity
                   /\ F("Outdoor_VOC") = outdoor.voc
                   /\ F("Outdoor_NOX") = outdoor.nox

C9_RowsFollowHeaders ==
    variant = "v2" => \A i \in DOMAIN rows_to_append : C9_RowOk(rows_to_append[i])

C9_Witness ==
    /\ variant = "v2"
    /\ Len(rows_to_append) = 3
    /\ rows_to_append[3][Col("Sensor_Type")] = Str("tempstick")

\* C10: every value in columns 5 to 18 of every row the current
\* orchestrator passes to append_to_sheet is a number or the empty string,
\* never None.
C10_NumericOrEmpty ==
    variant = "v2" =>
        \A j \in DOMAIN appendLog : \A i \in 5..18 :
            IsNum(appendLog[j][i]) \/ appendLog[j][i] = EmptyStr

C28_V1ReachesItsEnd ==
    (variant = "v1" /\ pc = "done" /\ OutdoorObtained) =>
        /\ raised = ""
        /\ backupFile # <<>>

(***************************************************************************)
(* Properties of the schema repair tool                                    *)
(***************************************************************************)
Called(name) == \E i \in DOMAIN fxCalls : fxCalls[i] = name
Mutated == Called("batchUpdate") \/ Called("values.clear") \/ Called("values.update")
TypedTwo == fxChoice \in {"2", " 2 "}
TypedYes == fxConfirm \in {"yes", "YES", "Yes"}

\* C5: in SheetsFixer.run no mutating spreadsheet call (batchUpdate,
\* values.clear, values.update) is made before backup_data has written the
\* dump of the whole sheet; the main sheet is cleared or changed only after
\* the operator chose 2 and then typed yes in any letter case; a choice
\* other than 1 and 2 makes no mutating call; and choice 2 followed by
\* anything but yes makes no mutating call and writes neither a tab nor the
\* CSV file.
C5_GatedMutation ==
    /\ Mutated => (fxBackupFile # <<>> /\ fxBackupFile = <<fxData>>)
    /\ (Called("values.clear") \/ (fxBackupFile # <<>> /\ fxSheet # fxBackupFile[1]))
           => (TypedTwo /\ TypedYes)
    /\ (fxPc = "done" /\ fxAllData # <<>> /\ fxChoice \notin {"1", "2", " 2 "})
           => (~Mutated /\ fxSheet = fxData /\ fxTab = <<>>)
    /\ (fxPc = "done" /\ TypedTwo /\ ~TypedYes)
           => (~Mutated /\ fxSheet = fxData /\ fxTab = <<>> /\ fxCsvFile = <<>>)

C5_Witness ==
    /\ fxPc = "done"
    /\ fxChoice = "2"
    /\ fxConfirm = "YES"
    /\ Called("values.update")
    /\ fxSheet = fxAllData
    /\ fxSheet # fxData

\* C6: the cleaned dataset holds, after the header and the converted legacy
\* rows, every row at or after the transition row that has exactly 18
\* columns, once each and in the original order, and no other row.
C6_NewRowsAllKept ==
    fxAllData # <<>> =>
        SubSeq(fxAllData, 2 + Len(fxConverted), Len(fxAllData))
            = SelectSeq(SubSeq(fxData, fxTransition.n, Len(fxData)), HasNewWidth)

\* sheet row i has a first column holding a "/"
SlashRow(i) == /\ i \in DOMAIN fxData
               /\ Len(fxData[i]) > 0
               /\ Contains(fxData[i][1], "/")

\* N: the number of rows with a "/" timestamp that follow the header
LegacyCount ==
    CHOOSE n \in 0..Len(fxData) : /\ \A i \in 2..(n + 1) : SlashRow(i)
                                  /\ ~SlashRow(n + 2)

\* the sheet read has the shape of the claim: the header, N rows with a "/"
\* in the first column, then a row whose first column holds none
ClaimShape ==
    /\ fxPc \in {"convert", "choose", "confirm", "done"}
    /\ fxData # <<>>
    /\ LegacyCount + 2 \in DOMAIN fxData
    /\ Len(fxData[LegacyCount + 2]) > 0

\* C20 as stated: on such a sheet analyze_schemas reports row N+1.
C20_TransitionAtNPlus1 ==
    ClaimShape => fxTransition = Num(LegacyCount + 1)

\* C20: on such a sheet analyze_schemas reports row N+2, the 1-indexed
\* sheet row (the header being row 1) of the first row without a "/", and
\* convert_old_data takes exactly the sheet rows 2..N+1, the rows strictly
\* before the reported row without the header, as legacy rows: it converts
\* those of at least 14 columns and no other row.
C20_TransitionAtNPlus2 ==
    ClaimShape =>
        /\ fxTransition = Num(LegacyCount + 2)
        /\ fxPc # "convert" =>
               fxConverted = MapConvert(SelectSeq(SubSeq(fxData, 2, LegacyCount + 1),
                                                  HasLegacyWidth))

\* two legacy rows, then a new row: row 4 reported, two rows converted
C20_Witness ==
    /\ ClaimShape
    /\ fxPc = "choose"
    /\ LegacyCount = 2
    /\ fxTransition = Num(4)
    /\ Len(fxConverted) = 2

\* the legacy columns kept (0-based 2,3,4,5,6,8,9,10,11,12,13) and the
\* columns of the new schema they go to, both 1-based
LegacyKept == <<3, 4, 5, 6, 7, 9, 10, 11, 12, 13, 14>>
MeasureCols == <<Col("Indoor_PM25"), Col("Outdoor_PM25"), Col("Filter_Efficiency"),
                 Col("Indoor_CO2"), Col("Indoor_VOC"), Col("Indoor_Temp"),
                 Col("Indoor_Humidity"), Col("Outdoor_CO2"), Col("Outdoor_Temp"),
                 Col("Outdoor_Humidity"), Col("Outdoor_VOC")>>

AtLeast14(row) == Len(row) >= 14

\* the rows convert_old_data is given as legacy rows
LegacyRows == SubSeq(fxData, 2, fxTransition.n - 1)

\* C21: once convert_old_data has run, its output holds exactly one row for
\* each legacy row of at least 14 columns, in order, and none for a shorter
\* row; the row has 18 columns, the identity columns are the fixed
\* defaults, Indoor_NOX, Indoor_Radon and Outdoor_NOX are empty, the 11
\* measurement columns hold the legacy columns 2,3,4,5,6,8,9,10,11,12,13
\* unchanged, and the values of legacy columns 1 and 7 appear nowhere.
C21_LegacyRowConverted ==
    (fxPc \in {"choose", "confirm", "done"} /\ fxTransition # None) =>
        LET kept == SelectSeq(LegacyRows, AtLeast14)
        IN  /\ Len(fxConverted) = Len(kept)
            /\ \A i \in DOMAIN kept :
                   LET row == kept[i]
                       out == fxConverted[i]
                   IN  /\ Len(out) = 18
                       /\ out[Col("Sensor_ID")] = "airthings_129430"
                       /\ out[Col("Room")] = "master_bedroom"
                       /\ out[Col("Sensor_Type")] = "airthings"
                       /\ out[Col("Indoor_NOX")] = ""
                       /\ out[Col("Indoor_Radon")] = ""
                       /\ out[Col("Outdoor_NOX")] = ""
                       /\ \A k \in 1..11 : out[MeasureCols[k]] = row[LegacyKept[k]]
                       /\ \A j \in 1..18 : out[j] \notin {row[2], row[8]}

\* a short legacy row was skipped and a 15-column one converted
C21_Witness ==
    /\ fxPc = "choose"
    /\ fxTransition = Num(4)
    /\ Len(fxData[2]) = 13
    /\ Len(fxData[3]) = 15
    /\ Len(fxConverted) = 1
    /\ fxConverted[1][Col("Outdoor_VOC")] = fxData[3][14]

\* the last sheet row of the legacy part: the row before the first row
\* without a "/", the last row of the sheet when there is no such row
LegacyEnd ==
    IF TransitionRow(fxData) = None THEN Len(fxData)
    ELSE TransitionRow(fxData).n - 1

\* C29: once backup_data has read the sheet, run() raises nothing in the
\* detect and convert steps and gets to the operator's choice, whatever the
\* sheet holds (only legacy rows, or only the header, included), and the
\* converted rows are those of all legacy rows of at least 14 columns.
C29_DetectAndConvertComplete ==
    fxBackupFile # <<>> =>
        /\ fxRaised = ""
        /\ fxPc = "done" => fxAllData # <<>>
        /\ fxPc \in {"choose", "confirm", "done"} =>
               fxConverted = MapConvert(SelectSeq(SubSeq(fxData, 2, LegacyEnd),
                                                  HasLegacyWidth))

\* C30: whatever the two calls of replace_existing_data answer, the main
\* sheet holds afterwards either the contents backup_data read or the whole
\* cleaned dataset, never nothing and never a part.
C30_OriginalOrCleaned ==
    (fxPc = "done" /\ Called("values.clear")) =>
        \/ fxSheet = fxBackupFile[1]
        \/ fxSheet = fxAllData

(***************************************************************************)
(* Properties of the calculator                                            *)
(***************************************************************************)
\* C7: for numbers with outdoor <= 0, calculate_efficiency returns 100.0
\* when indoor <= 0 and 0.0 when indoor > 0; no division by zero happens
\* and nothing is raised.
C7_NonPositiveOutdoor ==
    (calcPc = "applied" /\ IsNum(calcIndoor) /\ IsNum(calcOutdoor)
        /\ calcOutdoor.n <= 0) =>
        calcResult = IF calcIndoor.n <= 0 THEN Hundred ELSE Num(0)

C7_Witness ==
    /\ calcPc = "applied"
    /\ calcOutdoor = Num(0)
    /\ calcIndoor = Num(5)
    /\ calcResult = Num(0)

\* C8: for numbers with outdoor > 0 the result is the hundredth of a percent
\* nearest to ((outdoor - indoor) / outdoor) * 100 (the even one on a tie)
\* clamped to [0, 100]: 0.0 when indoor >= outdoor, 100.0 when indoor <= 0;
\* and for all numbers, negative ones included, the result lies in
\* [0, 100].
C8_ClampedRoundedRatio ==
    (calcPc = "applied" /\ IsNum(calcIndoor) /\ IsNum(calcOutdoor)) =>
        LET i == calcIndoor.n
            o == calcOutdoor.n
            c == calcResult.n \div 10        \* the result in hundredths
        IN  /\ IsNum(calcResult)
            /\ calcResult.n \in 0..100000
            /\ o > 0 =>
                 /\ calcResult.n % 10 = 0
                 /\ i >= o => calcResult = Num(0)
                 /\ i <= 0 => calcResult = Hundred
                 /\ (0 < i /\ i < o) =>
                      \* |c/100 - (o - i) * 100 / o| <= 0.005, even on a tie
                      LET d == c * o - (o - i) * 10000
                          a == IF d < 0 THEN 0 - d ELSE d
                      IN  /\ 2 * a <= o
                          /\ 2 * a = o => c % 2 = 0

C8_Witness ==
    /\ calcPc = "applied"
    /\ calcOutdoor = Num(32)
    /\ calcIndoor = Num(31)
    /\ calcResult = Num(3120)

\* C27: for every pair of numbers, outdoor <= 0 with indoor <= 0 included,
\* calculate_efficiency of collect_with_sheets_api and that of
\* collect_with_sheets_api_v2 return the same value up to the rounding to 1
\* and to 2 decimals: the results lie within 0.05 of each other.
C27_SameUpToRounding ==
    (calcPc = "applied" /\ IsNum(calcIndoor) /\ IsNum(calcOutdoor)) =>
        /\ IsNum(calcV1)
        /\ IsNum(calcResult)
        /\ calcV1.n % 100 = 0
        /\ calcV1.n - calcResult.n \in -50..50

(***************************************************************************)
(* Properties of the sensor adapters                                       *)
(***************************************************************************)
\* the request of the adapter met a transport failure
TransportFailed ==
    CASE adFn \in {"airthings", "airthings_legacy"} ->
             adIn.env.token # "ok" \/ adIn.env.accounts = "fail"
      [] adFn = "tempstick" -> adIn.r1.exc \/ adIn.r1.status # 200 \/ ~adIn.r1.json
      [] adFn = "airgradient_legacy" ->
             adIn.r1.exc \/ adIn.r1.status # 200 \/ ~adIn.r1.json
      [] OTHER -> /\ adIn.r1.exc \/ adIn.r1.status # 200 \/ ~adIn.r1.json
                  /\ adIn.r2.exc \/ adIn.r2.status # 200 \/ ~adIn.r2.json

\* the call ended with an exception that escaped the adapter
Escaped(result) ==
    \E e \in {"HTTPError", "KeyError", "IndexError", "TypeError"} : result = Raise(e)

\* C11: no adapter of the current collector or of the single-sensor
\* collector (collect_air_quality) lets an exception escape: after a
\* network error, a status other than success, a body that is not JSON or
\* a missing key it has returned None.
C11_AdaptersNeverRaise ==
    adPc = "done" =>
        /\ ~Escaped(adResult)
        /\ TransportFailed => adResult = None

\* the URLs the configuration of the call gives, in the order of the claim
Candidates ==
    (IF adIn.serial \notin {"", "XXXXXX"} THEN <<"mdns">> ELSE <<>>)
    \o (IF adIn.ip \notin {"", "192.168.X.XX"} THEN <<"ip">> ELSE <<>>)

\* the response answered HTTP 200 with parseable JSON
Parsed200(r) == ~r.exc /\ r.status = 200 /\ r.json

\* the response to the i-th candidate URL
AnswerTo(i) == IF i = 1 THEN adIn.r1 ELSE adIn.r2

\* C16: get_airgradient_data requests the mDNS URL first and the static-IP
\* URL second; the IP URL is requested exactly when the mDNS attempt did
\* not give HTTP 200 with parseable JSON; the reading is built from the
\* first URL that succeeded; None is returned only when every candidate
\* failed (a body that is JSON but no object counts as a failure here);
\* and with neither a real serial nor a real IP the result is None and no
\* request is made.
C16_UrlsInOrder ==
    (adPc = "done" /\ adFn = "airgradient") =>
        /\ Candidates = <<>> => (adResult = None /\ adRequests = <<>>)
        /\ Candidates # <<>> =>
               /\ adRequests # <<>>
               /\ adRequests = SubSeq(Candidates, 1, Len(adRequests))
        /\ Candidates = <<"mdns", "ip">> =>
               (Len(adRequests) = 2 <=> ~Parsed200(adIn.r1))
        /\ adResult # None =>
               LET r == AnswerTo(Len(adRequests))
               IN  /\ Parsed200(r)
                   /\ r.obj
                   /\ \A i \in 1..(Len(adRequests) - 1) : ~Parsed200(AnswerTo(i))
                   /\ adResult.co2 = Get(r.data, "rco2", Num(0))
        /\ adResult = None =>
               \A i \in DOMAIN Candidates :
                   ~Parsed200(AnswerTo(i)) \/ ~AnswerTo(i).obj

\* the reading field each pair of vendor fields is normalized into
PairField(p) == CASE p[1] = "pm02Compensated" -> "pm25"
                  [] p[1] = "atmpCompensated" -> "temp"
                  [] OTHER -> "humidity"

\* C17: in a reading of get_airgradient_data each of pm25, temp and
\* humidity is the payload's compensated field whenever that key is
\* present, the raw field when only the raw key is present, and 0 when
\* both keys are absent.
C17_CompensatedFirst ==
    (adPc = "done" /\ adFn = "airgradient" /\ adResult # None) =>
        LET data == AnswerTo(Len(adRequests)).data
        IN  \A p \in AGPairs :
                adResult[PairField(p)] =
                    IF p[1] \in DOMAIN data THEN data[p[1]]
                    ELSE IF p[2] \in DOMAIN data THEN data[p[2]]
                    ELSE Num(0)

\* a payload with both fields of each pair gave the compensated values, and
\* they differ from the raw ones
C17_Witness ==
    /\ adPc = "done"
    /\ adFn = "airgradient"
    /\ adResult # None
    /\ AnswerTo(Len(adRequests)).data = AGFull(4000)
    /\ adResult.pm25 = Num(4000)
    /\ adResult.temp = Num(25100)
    /\ adResult.humidity = Num(50000)

\* C18: get_tempstick_data called with an empty API key or an empty sensor
\* id (either one) returns None and sends no HTTP request.
C18_TempStickSkipped ==
    (adPc = "done" /\ adFn = "tempstick" /\ (adIn.key = "" \/ adIn.sensorId = "")) =>
        /\ adResult = None
        /\ adRequests = <<>>

\* the key is set and the sensor id is not: nothing was requested
C18_Witness ==
    /\ adPc = "done"
    /\ adFn = "tempstick"
    /\ adIn.key = "key"
    /\ adIn.sensorId = ""
    /\ adIn.r1 = Http(200, [data |-> [last_temp |-> Num(31456),
                                      last_humidity |-> Num(50800)]])
    /\ adResult = None
    /\ adRequests = <<>>

\* the consequence of C18 for a cycle of the current collector: without a
\* Temp Stick key the attic poll gives None and no attic row is queued or
\* appended
C18_NoAtticRow ==
    (variant = "v2" /\ cfg.tsKey = "") =>
        /\ attic \in {Unbound, None}
        /\ \A i \in DOMAIN rows_to_append : rows_to_append[i][Col("Room")] # Str("attic")
        /\ \A i \in DOMAIN appendLog : appendLog[i][Col("Room")] # Str("attic")

\* the `data` object of a Temp Stick answer
TSAnswer == Get(adIn.r1.data, "data", <<>>)

\* C19: when the Temp Stick API answers HTTP 200 with a JSON object,
\* get_tempstick_data returns a reading; its temp is the empty string when
\* last_temp is null or missing (not 0, not None), and a present last_temp
\* is the same Celsius number rounded to 2 decimals.
C19_NullTempIsEmpty ==
    (adPc = "done" /\ adFn = "tempstick" /\ adIn.key # "" /\ adIn.sensorId # ""
        /\ Parsed200(adIn.r1) /\ adIn.r1.obj) =>
        /\ adResult # None
        /\ adRequests = <<"tempstickapi">>
        /\ IF "last_temp" \notin DOMAIN TSAnswer \/ TSAnswer.last_temp = None
           THEN adResult.temp = EmptyStr
           ELSE LET sent == TSAnswer.last_temp.n
                    kept == adResult.temp
                IN  /\ kept.k = "num"
                    /\ kept.n % 10 = 0
                    /\ kept.n - sent \in -5..5

\* a null last_temp next to a real humidity gave temp '' in a reading
C19_Witness ==
    /\ adPc = "done"
    /\ adFn = "tempstick"
    /\ adIn.r1 = Http(200, [data |-> [last_temp |-> None, last_humidity |-> Num(80000)]])
    /\ adResult # None
    /\ adResult.temp = EmptyStr
    /\ adResult.humidity = Num(80000)

\* a present last_temp of 31.456 was kept as 31.46
C19_Rounded ==
    /\ adPc = "done"
    /\ adFn = "tempstick"
    /\ adResult # None
    /\ adResult.temp = Num(31460)

(***************************************************************************)
(* Properties of the spreadsheet gateway                                   *)
(***************************************************************************)
Updates(call) == Cardinality({i \in DOMAIN call.calls : call.calls[i] = "values.update"})

\* the last call was ensure_headers and no request of it failed
EnsuredCleanly(call) ==
    /\ call.fn = "ensure_headers"
    /\ call.backend = "ok" \/ (call.backend = "update_fails" /\ Updates(call) = 0)

\* C13: after an ensure_headers call that met no backend error, row 1 is
\* the canonical list of 18 headers; an ensure_headers call that directly
\* follows such a call issues no update and leaves the sheet as it was; and
\* no ensure_headers call changes or removes a row other than row 1.
C13_EnsureHeadersIdempotent ==
    gwLast.fn = "ensure_headers" =>
        /\ EnsuredCleanly(gwLast) =>
               /\ gwSheet # <<>>
               /\ Len(gwSheet[1]) = 18
               /\ \A i \in 1..18 : gwSheet[1][i] = Str(Headers[i])
        /\ EnsuredCleanly(gwPrev) => (Updates(gwLast) = 0 /\ gwSheet = gwBefore)
        /\ \A i \in 2..Len(gwBefore) : (i <= Len(gwSheet) /\ gwSheet[i] = gwBefore[i])
        /\ Len(gwSheet) \in {Len(gwBefore), IF gwBefore = <<>> THEN 1 ELSE Len(gwBefore)}

C13_Witness ==
    /\ EnsuredCleanly(gwPrev) /\ Updates(gwPrev) = 1
    /\ EnsuredCleanly(gwLast) /\ gwLast.backend = "ok"
    /\ Len(gwSheet) = 2

\* C14: append_to_sheet does not deduplicate: a call the backend accepts
\* adds exactly its row after the last row and returns True; every other
\* call (an answer without updated rows, a backend error) returns False and
\* leaves the sheet as it was; nothing is raised.  Two accepted calls with
\* the same row leave two stored rows.
C14_AppendAddsOneRow ==
    gwLast.fn = "append_to_sheet" =>
        /\ gwLast.result \in BOOLEAN
        /\ gwLast.result <=> gwLast.backend = "appended"
        /\ gwLast.result => gwSheet = Append(gwBefore, gwLast.row)
        /\ ~gwLast.result => gwSheet = gwBefore
        /\ (gwPrev.fn = "append_to_sheet" /\ gwPrev.result /\ gwLast.result) =>
               /\ Len(gwSheet) >= 2
               /\ gwSheet[Len(gwSheet) - 1] = gwPrev.row
               /\ gwSheet[Len(gwSheet)] = gwLast.row

C14_Witness ==
    /\ gwPrev.fn = "append_to_sheet" /\ gwPrev.result
    /\ gwLast.fn = "append_to_sheet" /\ gwLast.result
    /\ gwPrev.row = gwLast.row
    /\ Len(gwSheet) >= 3
    /\ gwSheet[Len(gwSheet)] = gwSheet[Len(gwSheet) - 1]

\* the reading field each Airthings sensor type is stored under
ATField(key) == IF key = "radonShortTermAvg" THEN "radon" ELSE key

\* the value the entries of a `sensors` list of the newer shape give a type
ATListed(list, key) ==
    LET at == {i \in DOMAIN list : list[i].sensorType = key}
    IN  IF at = {} THEN Num(0)
        ELSE list[CHOOSE i \in at : \A j \in at : j <= i].value

ATWellFormed(list) ==
    \A i \in DOMAIN list : {"sensorType", "value"} \subseteq DOMAIN list[i]

ReadingFields == {"sensor_id", "room", "sensor_type", "pm25", "co2", "voc", "nox",
                  "temp", "humidity", "radon"}

\* C15: once the token and the account are there, get_airthings_data of
\* the current collector reads the first entry of a non-empty `results`
\* array; without one it reads the first entry of a non-empty flat
\* `sensors` array; with neither it returns None; nothing is raised.  Both
\* shapes give the same reading fields, a missing measurement is 0 and nox
\* is the empty string.
C15_AirthingsShapes ==
    (adPc = "done" /\ adFn = "airthings" /\ adIn.env.token = "ok"
        /\ adIn.env.accounts = "ok") =>
        LET doc == adIn.env.sensors
            new == Get(doc, "results", <<>>)
            flat == Get(doc, "sensors", <<>>)
        IN  /\ ~Escaped(adResult)
            /\ adResult # None =>
                   /\ DOMAIN adResult = ReadingFields
                   /\ adResult.nox = EmptyStr
                   /\ adResult.room = Str("master_bedroom")
                   /\ adResult.sensor_type = Str("airthings")
            /\ IF new # <<>>
               THEN LET list == Get(new[1], "sensors", <<>>)
                    IN  ATWellFormed(list) =>
                            /\ adResult # None
                            /\ \A key \in ATKeys :
                                   adResult[ATField(key)] = ATListed(list, key)
               ELSE IF flat # <<>>
               THEN /\ adResult # None
                    /\ \A key \in ATKeys :
                           adResult[ATField(key)] = Get(flat[1], key, Num(0))
               ELSE adResult = None

C15_Witness ==
    /\ adPc = "done"
    /\ adFn = "airthings"
    /\ adIn.env.accounts = "ok"
    /\ "results" \notin DOMAIN adIn.env.sensors
    /\ adResult # None
    /\ adResult.pm25 = Num(4000)
    /\ adResult.radon = Num(12000)

(***************************************************************************)
(* Properties of the dashboard                                             *)
(***************************************************************************)
\* the step is a get_data call
GetDataStep == dbCount' = dbCount + 1

\* C22: a get_data call that runs load_raw reads the cache file exactly
\* when force_refresh is false, the file exists and its age is strictly
\* below 3600 seconds, and then returns the file's frame and leaves the
\* file alone; in every other case it fetches, and when it returns, the
\* frame is the spreadsheet's current contents and the cache file has been
\* rewritten at that time with the rows of the frame returned (the frame
\* without its helper column _orig_cols).
C22_CacheReadIffFresh ==
    [][(GetDataStep /\ dbLast'.source # "session") =>
          LET fresh == dbCache # <<>> /\ dbNow - dbCache[1].mtime < 3600
          IN  /\ dbLast'.source = "cache" <=> (~dbLast'.force /\ fresh)
              /\ dbLast'.source = "cache" =>
                     /\ ~dbLast'.raised
                     /\ dbLast'.result[1] = dbCache[1].data
                     /\ dbCache' = dbCache
              /\ (dbLast'.source = "sheets" /\ ~dbLast'.raised) =>
                     /\ dbLast'.result[1].version = dbSheet
                     /\ dbCache' # <<>>
                     /\ dbCache'[1].mtime = dbNow
                     /\ dbCache'[1].data.version = dbLast'.result[1].version
      ]_vars

\* a cache file of exactly 3600 seconds was not read: the data was fetched
\* and the file rewritten
C22_Witness ==
    /\ dbLast.source = "sheets"
    /\ ~dbLast.force
    /\ ~dbLast.raised
    /\ dbLast.age = 3600
    /\ dbCache # <<>>
    /\ dbCache[1].mtime = dbNow
    /\ dbCache[1].data.version = 2

\* a cache file of 3599 seconds was read
C22_ReadFresh ==
    /\ dbLast.source = "cache"
    /\ dbLast.age = 3599
    /\ dbSheet = 2
    /\ dbLast.result[1].version = 1

\* C23: a get_data call made while the refresh flag is set fetches from the
\* spreadsheet whatever the age of the cache file and removes the flag;
\* when the fetch and the save succeed the cache file is overwritten and
\* the session's raw, hourly and daily data are those of the new fetch,
\* which the call returns.  A get_data call made without the flag in a
\* session that holds data returns that data, fetches nothing and changes
\* neither the session nor the cache file.
C23_RefreshConsumedOnce ==
    [][GetDataStep =>
          /\ Get(dbSession, "_force_refresh", FALSE) =>
                 /\ dbLast'.source = "sheets"
                 /\ "_force_refresh" \notin DOMAIN dbSession'
                 /\ ~dbLast'.raised =>
                        /\ dbCache' = <<[data |-> Frame(dbSheet, FALSE), mtime |-> dbNow]>>
                        /\ dbSession'["_cached_raw"] = Frame(dbSheet, TRUE)
                        /\ dbSession'["_cached_hourly"].of = dbSheet
                        /\ dbSession'["_cached_daily"].of = dbSheet
                        /\ dbLast'.result = SessionData(dbSession')
          /\ (~Get(dbSession, "_force_refresh", FALSE)
                 /\ "_cached_raw" \in DOMAIN dbSession) =>
                 /\ dbLast'.source = "session"
                 /\ dbLast'.result = SessionData(dbSession)
                 /\ dbSession' = dbSession
                 /\ dbCache' = dbCache
      ]_vars

\* a refresh fetched version 2 although the cache file, holding version 1,
\* was one second old
C23_Witness ==
    /\ dbLast.force
    /\ dbLast.source = "sheets"
    /\ dbLast.age = 1
    /\ ~dbLast.raised
    /\ dbSession # <<>>
    /\ dbSession["_cached_raw"].version = 2
    /\ dbSession["_cached_hourly"].of = 2
    /\ dbCache[1].data.version = 2

(***************************************************************************)
(* Properties of the legacy scheduler                                      *)
(***************************************************************************)
IsCollection(ev) ==
    ev \in {"collect:saved", "collect:no_accounts_logged", "collect:error_logged",
            "collect:failed", "collect:interrupted"}

\* a collection met an exception
CollectionFailed(ev) == ev \in {"collect:error_logged", "collect:failed"}

Collections == Cardinality({i \in DOMAIN scTrace : IsCollection(scTrace[i])})

LineExcludes(line, path) ==
    \/ line = path
    \/ /\ Len(line) > 0
       /\ SubSeq(line, Len(line), Len(line)) = "/"
       /\ Len(path) > Len(line)
       /\ SubSeq(path, 1, Len(line)) = line

CredsExcluded ==
    /\ suEnv.gitignore # <<>>
    /\ \E line \in suEnv.gitignore[1] : LineExcludes(line, suEnv.credsPath)

\* C25: check_setup prints the pass summary only when the credential file
\* exists and is a readable JSON object, the credential file is excluded
\* from version control, GOOGLE_SPREADSHEET_ID is set and the Google
\* libraries are importable; otherwise it prints the fail summary; the
\* files and the environment are as they were.
C25_PassOnlyWhenAllHold ==
    suPc = "done" =>
        /\ suSummary \in {"pass", "fail"}
        /\ suSummary = "pass" <=>
               /\ suEnv.credsFile = "valid"
               /\ CredsExcluded
               /\ suEnv.sheetId # ""
               /\ suEnv.libs = "installed"

(***************************************************************************)
(* Properties of the phase segmentation                                    *)
(***************************************************************************)
PeriodNames == {"Baseline", "HVACOnly", "HVACERV", "MERV13"}

\* the phases a row is counted in
PhasesOf(i) ==
    IF phFn = "add_phase_labels" THEN {phLabels[i]}
    ELSE {p \in PeriodNames : i \in phPeriods[p]}

\* C26: after add_phase_labels and after the period windows of
\* analyze_filter_impact every row of the data is counted in exactly one
\* phase, a row whose timestamp is that of an installation event included.
C26_OnePhasePerRow ==
    phPc = "done" =>
        \A i \in DOMAIN phIndex : Cardinality(PhasesOf(i)) = 1

(***************************************************************************)
(* Specifications                                                          *)
(***************************************************************************)
Init == CycleInit /\ CalcIdle /\ FixerIdle /\ AdapterIdle /\ GatewayIdle /\ ToolsIdle

Next ==
    \/ (Connect /\ UNCHANGED <<calcVars, fixerVars, adapterVars, gatewayVars, toolVars>>)
    \/ (EnsureHeaders /\ UNCHANGED <<calcVars, fixerVars, adapterVars, gatewayVars, toolVars>>)
    \/ (PollOutdoor /\ UNCHANGED <<calcVars, fixerVars, adapterVars, gatewayVars, toolVars>>)
    \/ (PollMaster /\ UNCHANGED <<calcVars, fixerVars, adapterVars, gatewayVars, toolVars>>)
    \/ (PollSecond /\ UNCHANGED <<calcVars, fixerVars, adapterVars, gatewayVars, toolVars>>)
    \/ (PollAttic /\ UNCHANGED <<calcVars, fixerVars, adapterVars, gatewayVars, toolVars>>)
    \/ (SendRow /\ UNCHANGED <<calcVars, fixerVars, adapterVars, gatewayVars, toolVars>>)
    \/ (Report /\ UNCHANGED <<calcVars, fixerVars, adapterVars, gatewayVars, toolVars>>)
    \/ (SaveBackup /\ UNCHANGED <<calcVars, fixerVars, adapterVars, gatewayVars, toolVars>>)
    \/ (ArchPollMaster /\ UNCHANGED <<calcVars, fixerVars, adapterVars, gatewayVars, toolVars>>)
    \/ (ArchPollSecond /\ UNCHANGED <<calcVars, fixerVars, adapterVars, gatewayVars, toolVars>>)
    \/ (ArchPollOutdoor /\ UNCHANGED <<calcVars, fixerVars, adapterVars, gatewayVars, toolVars>>)
    \/ (ArchEfficiency /\ UNCHANGED <<calcVars, fixerVars, adapterVars, gatewayVars, toolVars>>)
    \/ (ArchSend /\ UNCHANGED <<calcVars, fixerVars, adapterVars, gatewayVars, toolVars>>)
    \/ (ArchBackup /\ UNCHANGED <<calcVars, fixerVars, adapterVars, gatewayVars, toolVars>>)

Spec == Init /\ [][Next]_vars

CalcInit == CalcDrawn /\ CycleIdle /\ FixerIdle /\ AdapterIdle /\ GatewayIdle /\ ToolsIdle

CalcNext == ApplyCalc /\ UNCHANGED <<cycleVars, fixerVars, adapterVars, gatewayVars, toolVars>>

SpecCalc == CalcInit /\ [][CalcNext]_vars

FixerStart == FixerInit /\ CycleIdle /\ CalcIdle /\ AdapterIdle /\ GatewayIdle /\ ToolsIdle

FixerNext ==
    \/ (FxBackup /\ UNCHANGED <<calcVars, cycleVars, adapterVars, gatewayVars, toolVars>>)
    \/ (FxAnalyze /\ UNCHANGED <<calcVars, cycleVars, adapterVars, gatewayVars, toolVars>>)
    \/ (FxConvert /\ UNCHANGED <<calcVars, cycleVars, adapterVars, gatewayVars, toolVars>>)
    \/ (FxChoose /\ UNCHANGED <<calcVars, cycleVars, adapterVars, gatewayVars, toolVars>>)
    \/ (FxConfirm /\ UNCHANGED <<calcVars, cycleVars, adapterVars, gatewayVars, toolVars>>)

SpecFixer == FixerStart /\ [][FixerNext]_vars

AdapterInit == AdapterDrawn /\ CycleIdle /\ CalcIdle /\ FixerIdle /\ GatewayIdle /\ ToolsIdle

AdapterNext ==
    \/ (CallAirthings /\ UNCHANGED <<calcVars, cycleVars, fixerVars, gatewayVars, toolVars>>)
    \/ (CallAirGradient /\ UNCHANGED <<calcVars, cycleVars, fixerVars, gatewayVars, toolVars>>)
    \/ (CallTempStick /\ UNCHANGED <<calcVars, cycleVars, fixerVars, gatewayVars, toolVars>>)
    \/ (CallAirthingsLegacy /\ UNCHANGED <<calcVars, cycleVars, fixerVars, gatewayVars, toolVars>>)
    \/ (CallAirGradientLegacy /\ UNCHANGED <<calcVars, cycleVars, fixerVars, gatewayVars, toolVars>>)

SpecAdapters == AdapterInit /\ [][AdapterNext]_vars

GatewayInit == GatewayOpen /\ CycleIdle /\ CalcIdle /\ FixerIdle /\ AdapterIdle /\ ToolsIdle

GatewayNext ==
    \/ (CallEnsureHeaders /\ UNCHANGED <<calcVars, cycleVars, fixerVars, adapterVars, toolVars>>)
    \/ (CallAppendToSheet /\ UNCHANGED <<calcVars, cycleVars, fixerVars, adapterVars, toolVars>>)

SpecGateway == GatewayInit /\ [][GatewayNext]_vars

CoreIdle == CycleIdle /\ CalcIdle /\ FixerIdle /\ AdapterIdle /\ GatewayIdle

DashInit == DashStart /\ CoreIdle /\ SchedIdle /\ SetupIdle /\ PhaseIdle

DashNext ==
    \/ (GetData /\ UNCHANGED <<coreVars, schedVars, setupVars, phaseVars>>)
    \/ (PressRefresh /\ UNCHANGED <<coreVars, schedVars, setupVars, phaseVars>>)
    \/ (NewSession /\ UNCHANGED <<coreVars, schedVars, setupVars, phaseVars>>)
    \/ (ClockAdvances /\ UNCHANGED <<coreVars, schedVars, setupVars, phaseVars>>)
    \/ (SheetAppended /\ UNCHANGED <<coreVars, schedVars, setupVars, phaseVars>>)

SpecDashboard == DashInit /\ [][DashNext]_vars

SchedInit == SchedStart /\ CoreIdle /\ DashIdle /\ SetupIdle /\ PhaseIdle

SchedNext ==
    \/ (RunOnce /\ UNCHANGED <<coreVars, dashVars, setupVars, phaseVars>>)
    \/ (RunImmediately /\ UNCHANGED <<coreVars, dashVars, setupVars, phaseVars>>)
    \/ (RunPending /\ UNCHANGED <<coreVars, dashVars, setupVars, phaseVars>>)
    \/ (SleepMinute /\ UNCHANGED <<coreVars, dashVars, setupVars, phaseVars>>)
    \/ (SleepFiveMinutes /\ UNCHANGED <<coreVars, dashVars, setupVars, phaseVars>>)

SpecScheduler == SchedInit /\ [][SchedNext]_vars

SetupInit == SetupStart /\ CoreIdle /\ DashIdle /\ SchedIdle /\ PhaseIdle

SetupNext == CheckSetup /\ UNCHANGED <<coreVars, dashVars, schedVars, phaseVars>>

SpecSetup == SetupInit /\ [][SetupNext]_vars

PhaseInit == PhaseStart /\ CoreIdle /\ DashIdle /\ SchedIdle /\ SetupIdle

PhaseNext ==
    \/ (CallAddPhaseLabels /\ UNCHANGED <<coreVars, dashVars, schedVars, setupVars>>)
    \/ (CallAnalyzeFilterImpact /\ UNCHANGED <<coreVars, dashVars, schedVars, setupVars>>)

SpecPhases == PhaseInit /\ [][PhaseNext]_vars

====
